---- MODULE Spec2Model ----
(***************************************************************************)
(* A model of the HTTP client of lib-http (src/src/http-client.ts and its  *)
(* near-duplicate src/src/http-client/http-client-base.ts): the request    *)
(* configurator (instance defaults, setters, clone, URL and header         *)
(* building) and the response normalizer (content-type classification,     *)
(* body reading, error raising, content interception).                     *)
(*                                                                         *)
(* JavaScript objects are modelled with their identity: the three          *)
(* dictionaries of a client are references into a heap, so that storing a  *)
(* caller's object by reference and copying it with a spread differ.       *)
(***************************************************************************)
EXTENDS Integers, Sequences, FiniteSets, TLC

VARIABLES heap, clients, calls, thrown, setterCalls, template

vars == <<heap, clients, calls, thrown, setterCalls, template>>

(***************************************************************************)
(* Bounds of the model.                                                    *)
(***************************************************************************)
MaxCalls == 2

\* How many setter calls a behaviour of the call specification makes.
MaxSetterCalls == 2

\* How many values a template of the endpoint specification interpolates.
MaxValues == 2

(***************************************************************************)
(* JavaScript values.  Every value is a record of the same shape so that   *)
(* any two of them can be compared: t is the type tag, n the number (or    *)
(* the truth value of a boolean, 1 for true), s the string (or the         *)
(* identity of a function or of an opaque object), a the elements of an    *)
(* array.                                                                  *)
(***************************************************************************)
JsUndefined == [t |-> "undefined", n |-> 0, s |-> "", a |-> <<>>]
JsNull == [t |-> "null", n |-> 0, s |-> "", a |-> <<>>]
Num(n) == [t |-> "number", n |-> n, s |-> "", a |-> <<>>]
Str(s) == [t |-> "string", n |-> 0, s |-> s, a |-> <<>>]
Bool(b) == [t |-> "boolean", n |-> IF b THEN 1 ELSE 0, s |-> "", a |-> <<>>]
Arr(a) == [t |-> "array", n |-> 0, s |-> "", a |-> a]
Fn(name) == [t |-> "function", n |-> 0, s |-> name, a |-> <<>>]
Obj(name) == [t |-> "object", n |-> 0, s |-> name, a |-> <<>>]

\* An object with a toString method of its own that returns text; n tells
\* it from an object that has the toString of Object.prototype.
WithToString(text) == [t |-> "object", n |-> 1, s |-> text, a |-> <<>>]

\* x == null of JavaScript: true of null and of undefined only.
IsNullish(v) == v.t \in {"undefined", "null"}

\* The truthiness of a value in a condition: if (value).
Truthy(v) ==
    CASE v.t = "undefined" -> FALSE
      [] v.t = "null" -> FALSE
      [] v.t = "number" -> v.n # 0
      [] v.t = "string" -> v.s # ""
      [] v.t = "boolean" -> v.n = 1
      [] OTHER -> TRUE

\* a || b of JavaScript.
JsOr(a, b) == IF Truthy(a) THEN a ELSE b

\* The decimal text of the numbers the model uses.
NumStr(n) ==
    CASE n = 0 -> "0"
      [] n = 1 -> "1"
      [] n = 2 -> "2"
      [] n = 3 -> "3"
      [] OTHER -> "n"

RECURSIVE JoinNums(_)
\* Array.prototype.toString of an array of numbers: the elements joined by commas.
JoinNums(a) ==
    IF a = <<>> THEN ""
    ELSE IF Len(a) = 1 THEN NumStr(a[1])
    ELSE NumStr(a[1]) \o "," \o JoinNums(Tail(a))

\* value.toString(), and the String(value) conversion of URLSearchParams.append.
ToStr(v) ==
    CASE v.t = "number" -> NumStr(v.n)
      [] v.t = "string" -> v.s
      [] v.t = "boolean" -> (IF v.n = 1 THEN "true" ELSE "false")
      [] v.t = "array" -> JoinNums(v.a)
      [] v.t = "undefined" -> "undefined"
      [] v.t = "null" -> "null"
      [] OTHER -> v.s

(***************************************************************************)
(* Dictionaries: plain JavaScript objects with string keys, kept as the    *)
(* sequence of their entries in insertion order (the order of for..in and  *)
(* of a spread).                                                           *)
(***************************************************************************)
EmptyDict == <<>>

Entry(k, v) == [k |-> k, v |-> v]

DictKeys(d) == {d[j].k : j \in 1..Len(d)}

\* d[key] = v: an existing key keeps its place, a new key goes last.
DictPut(d, key, v) ==
    IF key \in DictKeys(d)
    THEN [j \in 1..Len(d) |-> IF d[j].k = key THEN Entry(key, v) ELSE d[j]]
    ELSE Append(d, Entry(key, v))

RECURSIVE ObjectAssign(_, _)
\* Object.assign(target, source): the value of target afterwards.
ObjectAssign(target, source) ==
    IF source = <<>> THEN target
    ELSE ObjectAssign(DictPut(target, source[1].k, source[1].v), Tail(source))

\* { ...a, ...b }: a new object.
Spread(a, b) == ObjectAssign(ObjectAssign(EmptyDict, a), b)

(***************************************************************************)
(* The heap of dictionary objects.  An object is either one the caller     *)
(* created and still holds (it can pass the same object again), or one     *)
(* only a private field of a client refers to: an object literal or the    *)
(* result of a spread handed to the constructor or to a setter, or the     *)
(* default value of a constructor parameter.  A private field has no       *)
(* getter, so such an object never gets a second reference and the model   *)
(* keeps one of them per field.                                            *)
(***************************************************************************)
Clients == {1, 2}

Fields == {"params", "query", "headers"}

CallerObjs == {"o1"}

OwnId(i, f) ==
    CASE i = 1 /\ f = "params" -> "c1.params"
      [] i = 1 /\ f = "query" -> "c1.query"
      [] i = 1 /\ f = "headers" -> "c1.headers"
      [] i = 2 /\ f = "params" -> "c2.params"
      [] i = 2 /\ f = "query" -> "c2.query"
      [] OTHER -> "c2.headers"

ObjIds == CallerObjs \cup {OwnId(i, f) : i \in Clients, f \in Fields}

\* A dictionary argument: absent (undefined), an object the caller holds, or
\* a fresh object (a literal or a spread) with the given entries.
Absent == [kind |-> "absent", ref |-> "", lit |-> EmptyDict]
Held(o) == [kind |-> "held", ref |-> o, lit |-> EmptyDict]
Literal(d) == [kind |-> "literal", ref |-> "", lit |-> d]

\* The entries of a dictionary argument.
ArgDict(h, arg) == IF arg.kind = "held" THEN h[arg.ref] ELSE arg.lit

\* The reference held by field f of client i after this.#f = arg.
StoredRef(i, f, arg) == IF arg.kind = "held" THEN arg.ref ELSE OwnId(i, f)

\* The heap after this.#f = arg.
StoredHeap(h, i, f, arg) == [h EXCEPT ![OwnId(i, f)] = arg.lit]

\* The reference in field f of client c.
RefOf(c, f) ==
    CASE f = "params" -> c.params
      [] f = "query" -> c.query
      [] OTHER -> c.headers

\* The dictionary field f of client c refers to.
Deref(h, c, f) ==
    CASE f = "params" -> h[c.params]
      [] f = "query" -> h[c.query]
      [] OTHER -> h[c.headers]

(***************************************************************************)
(* The client: its private fields.                                         *)
(***************************************************************************)
\* class names the variant of the client: HttpClient, or HttpClientBase,
\* which has no content interceptor and whose get, post, put and del hand
\* their settings object to fetch as it is.
NoClient ==
    [exists |-> FALSE, class |-> "", serviceUrl |-> JsUndefined, endpointFn |-> JsUndefined,
     params |-> "", query |-> "", headers |-> "",
     credentials |-> JsUndefined, signal |-> JsUndefined,
     contentInterceptorFn |-> JsUndefined]

DefaultHeaders ==
    <<Entry("content-type", Str("application/json")),
      Entry("accept", Str("application/json"))>>

\* A destructuring default: the default stands in for undefined only.
OrDefault(v, default) == IF v.t = "undefined" THEN default ELSE v

DictOrDefault(arg, default) == IF arg.kind = "absent" THEN Literal(default) ELSE arg

\* new HttpClient(settings): the fields of client i afterwards.
constructor(i, settings) ==
    [exists |-> TRUE,
     class |-> "HttpClient",
     serviceUrl |-> settings.serviceUrl,
     endpointFn |-> settings.endpointFn,
     params |-> StoredRef(i, "params", DictOrDefault(settings.params, EmptyDict)),
     query |-> StoredRef(i, "query", DictOrDefault(settings.query, EmptyDict)),
     headers |-> StoredRef(i, "headers", DictOrDefault(settings.headers, DefaultHeaders)),
     credentials |-> OrDefault(settings.credentials, Str("same-origin")),
     signal |-> settings.signal,
     contentInterceptorFn |-> settings.contentInterceptorFn]

\* new HttpClientBase(settings): the fields of client i afterwards.
HttpClientBase_constructor(i, settings) ==
    [constructor(i, settings) EXCEPT !.class = "HttpClientBase",
                                     !.contentInterceptorFn = JsUndefined]

\* The heap after new HttpClient(settings) made client i.
constructorHeap(h, i, settings) ==
    StoredHeap(
        StoredHeap(
            StoredHeap(h, i, "params", DictOrDefault(settings.params, EmptyDict)),
            i, "query", DictOrDefault(settings.query, EmptyDict)),
        i, "headers", DictOrDefault(settings.headers, DefaultHeaders))

\* The settings clone() hands to the constructor.
cloneSettings(h, c) ==
    [serviceUrl |-> c.serviceUrl,
     endpointFn |-> c.endpointFn,
     params |-> Literal(Spread(h[c.params], EmptyDict)),
     query |-> Literal(Spread(h[c.query], EmptyDict)),
     headers |-> Literal(Spread(h[c.headers], EmptyDict)),
     credentials |-> c.credentials,
     signal |-> c.signal,
     contentInterceptorFn |-> JsUndefined]

\* thrown is the message of the error the latest constructor or setter call
\* raised, or NoError when it returned.
NoError == ""

\* j = this.clone() for client i.
clone(i, j) ==
    /\ clients[i].exists
    /\ i # j
    /\ clients' = [clients EXCEPT ![j] =
           IF clients[i].class = "HttpClientBase"
           THEN HttpClientBase_constructor(j, cloneSettings(heap, clients[i]))
           ELSE constructor(j, cloneSettings(heap, clients[i]))]
    /\ heap' = constructorHeap(heap, j, cloneSettings(heap, clients[i]))
    /\ thrown' = NoError
    /\ UNCHANGED calls

\* setServiceUrl(serviceUrl) on client i.
setServiceUrl(i, serviceUrl) ==
    /\ clients[i].exists
    /\ IF IsNullish(serviceUrl)
       THEN /\ thrown' = "Missing service URL"
            /\ UNCHANGED clients
       ELSE /\ clients' = [clients EXCEPT ![i].serviceUrl = serviceUrl]
            /\ thrown' = NoError
    /\ UNCHANGED <<heap, calls>>

\* setEndpoint with the field assigned before the argument is looked at.
setEndpoint_AssignsFirst(i, endpointFn) ==
    /\ clients[i].exists
    /\ clients' = [clients EXCEPT ![i].endpointFn = endpointFn]
    /\ thrown' = IF IsNullish(endpointFn) \/ endpointFn.t # "function"
                 THEN "Invalid endpoint"
                 ELSE NoError
    /\ UNCHANGED <<heap, calls>>

\* setEndpoint(endpointFn) on client i.
setEndpoint(i, endpointFn) ==
    /\ clients[i].exists
    /\ IF IsNullish(endpointFn) \/ endpointFn.t # "function"
       THEN /\ thrown' = "Invalid endpoint"
            /\ UNCHANGED clients
       ELSE /\ clients' = [clients EXCEPT ![i].endpointFn = endpointFn]
            /\ thrown' = NoError
    /\ UNCHANGED <<heap, calls>>

\* setAuthorization storing a headers dictionary with the one entry.
setAuthorization_ReplacesHeaders(i, authorization) ==
    /\ clients[i].exists
    /\ IF IsNullish(authorization)
       THEN /\ thrown' = "Missing authorization"
            /\ UNCHANGED heap
       ELSE /\ heap' = [heap EXCEPT ![clients[i].headers] =
                            <<Entry("authorization", authorization)>>]
            /\ thrown' = NoError
    /\ UNCHANGED <<clients, calls>>

\* setAuthorization(authorization) on client i.
setAuthorization(i, authorization) ==
    /\ clients[i].exists
    /\ IF IsNullish(authorization)
       THEN /\ thrown' = "Missing authorization"
            /\ UNCHANGED heap
       ELSE /\ heap' = [heap EXCEPT ![clients[i].headers] =
                            DictPut(@, "authorization", authorization)]
            /\ thrown' = NoError
    /\ UNCHANGED <<clients, calls>>

(***************************************************************************)
(* btoa: the Base64 text of a string of one-byte characters.  A string     *)
(* whose characters matter is a string value that carries them in a.       *)
(***************************************************************************)
Base64Alphabet ==
    <<"A", "B", "C", "D", "E", "F", "G", "H", "I", "J", "K", "L", "M",
      "N", "O", "P", "Q", "R", "S", "T", "U", "V", "W", "X", "Y", "Z",
      "a", "b", "c", "d", "e", "f", "g", "h", "i", "j", "k", "l", "m",
      "n", "o", "p", "q", "r", "s", "t", "u", "v", "w", "x", "y", "z",
      "0", "1", "2", "3", "4", "5", "6", "7", "8", "9", "+", "/">>

\* The character code of the letters, the digits and the colon.
CharCode(ch) ==
    IF \E j \in 1..62 : Base64Alphabet[j] = ch
    THEN LET j == CHOOSE j \in 1..62 : Base64Alphabet[j] = ch
         IN  IF j <= 26 THEN 64 + j
             ELSE IF j <= 52 THEN 96 + (j - 26)
             ELSE 47 + (j - 52)
    ELSE 58

RECURSIVE JoinChars(_)
\* The string made of the characters.
JoinChars(chars) == IF chars = <<>> THEN "" ELSE chars[1] \o JoinChars(Tail(chars))

\* A string value given by its characters.
Text(chars) == [t |-> "string", n |-> 0, s |-> JoinChars(chars), a |-> chars]

RECURSIVE Base64(_)
\* The Base64 characters of a sequence of bytes: three bytes give four
\* characters, a rest of one or two bytes is padded with =.
Base64(bytes) ==
    IF bytes = <<>> THEN <<>>
    ELSE LET b1 == bytes[1]
             b2 == IF Len(bytes) >= 2 THEN bytes[2] ELSE 0
             b3 == IF Len(bytes) >= 3 THEN bytes[3] ELSE 0
             c1 == Base64Alphabet[(b1 \div 4) + 1]
             c2 == Base64Alphabet[((b1 % 4) * 16 + (b2 \div 16)) + 1]
             c3 == Base64Alphabet[((b2 % 16) * 4 + (b3 \div 64)) + 1]
             c4 == Base64Alphabet[(b3 % 64) + 1]
         IN  IF Len(bytes) = 1 THEN <<c1, c2, "=", "=">>
             ELSE IF Len(bytes) = 2 THEN <<c1, c2, c3, "=">>
             ELSE <<c1, c2, c3, c4>> \o Base64(SubSeq(bytes, 4, Len(bytes)))

\* btoa(text).
btoa(text) == Text(Base64([j \in 1..Len(text.a) |-> CharCode(text.a[j])]))

\* setBasicAuth(token) on client i.
setBasicAuth(i, token) ==
    IF IsNullish(token)
    THEN /\ clients[i].exists
         /\ thrown' = "Missing basic authorization"
         /\ UNCHANGED <<heap, clients, calls>>
    ELSE setAuthorization(i, Str("Basic " \o ToStr(token)))

\* setBearerAuth(token) on client i.
setBearerAuth(i, token) ==
    IF IsNullish(token)
    THEN /\ clients[i].exists
         /\ thrown' = "Missing bearer authorization"
         /\ UNCHANGED <<heap, clients, calls>>
    ELSE setAuthorization(i, Str("Bearer " \o ToStr(token)))

\* setBasicAuthCredentials(username, password) on client i.
setBasicAuthCredentials(i, username, password) ==
    IF IsNullish(username) \/ IsNullish(password)
    THEN /\ clients[i].exists
         /\ thrown' = "Missing username or password"
         /\ UNCHANGED <<heap, clients, calls>>
    ELSE setBasicAuth(i, btoa(Text(username.a \o <<":">> \o password.a)))

\* The fields of client c after this.#f = ref.
WithRef(c, f, ref) ==
    CASE f = "params" -> [c EXCEPT !.params = ref]
      [] f = "query" -> [c EXCEPT !.query = ref]
      [] OTHER -> [c EXCEPT !.headers = ref]

\* SetDict with the argument merged in whatever replace is.
SetDict_AlwaysMerges(i, f, arg, replace) ==
    /\ heap' = [heap EXCEPT ![RefOf(clients[i], f)] = ObjectAssign(@, ArgDict(heap, arg))]
    /\ UNCHANGED clients

\* The body shared by setParams, setQuery and setHeaders: with replace the
\* field takes the argument object itself, otherwise the argument's entries
\* are assigned into the object the field refers to.
SetDict(i, f, arg, replace) ==
    IF replace
    THEN /\ clients' = [clients EXCEPT ![i] = WithRef(@, f, StoredRef(i, f, arg))]
         /\ heap' = StoredHeap(heap, i, f, arg)
    ELSE /\ heap' = [heap EXCEPT ![RefOf(clients[i], f)] =
                         ObjectAssign(@, ArgDict(heap, arg))]
         /\ UNCHANGED clients

\* setParams(params, replace) on client i.
setParams(i, arg, replace) ==
    /\ clients[i].exists
    /\ SetDict(i, "params", arg, replace)
    /\ thrown' = NoError
    /\ UNCHANGED calls

\* setQuery(query, replace) on client i.
setQuery(i, arg, replace) ==
    /\ clients[i].exists
    /\ SetDict(i, "query", arg, replace)
    /\ thrown' = NoError
    /\ UNCHANGED calls

\* setHeaders(headers, replace) on client i.
setHeaders(i, arg, replace) ==
    /\ clients[i].exists
    /\ SetDict(i, "headers", arg, replace)
    /\ thrown' = NoError
    /\ UNCHANGED calls

\* setSignal(signal) on client i.
setSignal(i, signal) ==
    /\ clients[i].exists
    /\ clients' = [clients EXCEPT ![i].signal = signal]
    /\ thrown' = NoError
    /\ UNCHANGED <<heap, calls>>

\* setContentInterceptor(contentInterceptorFn) on client i.
setContentInterceptor(i, contentInterceptorFn) ==
    /\ clients[i].exists
    /\ IF contentInterceptorFn.t # "function"
       THEN /\ thrown' = "A function type is expected on setContentInterceptor"
            /\ UNCHANGED clients
       ELSE /\ clients' = [clients EXCEPT ![i].contentInterceptorFn = contentInterceptorFn]
            /\ thrown' = NoError
    /\ UNCHANGED <<heap, calls>>

(***************************************************************************)
(* Content types.  A content-type value is the sequence of its characters, *)
(* so that the regular expressions and startsWith of the source are        *)
(* computed on the text itself.                                            *)
(***************************************************************************)
\* The lower-case form of a character (the /i flag of a regular expression).
LowerChar(ch) ==
    CASE ch = "A" -> "a" [] ch = "B" -> "b" [] ch = "C" -> "c" [] ch = "D" -> "d"
      [] ch = "E" -> "e" [] ch = "F" -> "f" [] ch = "G" -> "g" [] ch = "H" -> "h"
      [] ch = "I" -> "i" [] ch = "J" -> "j" [] ch = "K" -> "k" [] ch = "L" -> "l"
      [] ch = "M" -> "m" [] ch = "N" -> "n" [] ch = "O" -> "o" [] ch = "P" -> "p"
      [] ch = "Q" -> "q" [] ch = "R" -> "r" [] ch = "S" -> "s" [] ch = "T" -> "t"
      [] ch = "U" -> "u" [] ch = "V" -> "v" [] ch = "W" -> "w" [] ch = "X" -> "x"
      [] ch = "Y" -> "y" [] ch = "Z" -> "z" [] OTHER -> ch

\* String.prototype.toLowerCase.
LowerCase(str) == [j \in 1..Len(str) |-> LowerChar(str[j])]

\* The text p stands in str at position j.
OccursAt(str, p, j) ==
    /\ j >= 1
    /\ j + Len(p) - 1 <= Len(str)
    /\ \A m \in 1..Len(p) : str[j + m - 1] = p[m]

\* String.prototype.startsWith.
StartsWith(str, p) == OccursAt(str, p, 1)

ApplicationSlash == <<"a", "p", "p", "l", "i", "c", "a", "t", "i", "o", "n", "/">>
TextSlash == <<"t", "e", "x", "t", "/">>
ImageSlash == <<"i", "m", "a", "g", "e", "/">>
JsonWord == <<"j", "s", "o", "n">>
XmlWord == <<"x", "m", "l">>
TextPlain == <<"t", "e", "x", "t", "/", "p", "l", "a", "i", "n">>

\* str.match(/(top1|top2|...)\/(.*)(\+)?word$/i): somewhere in str stands one
\* of the tops (each ending in the slash), and str ends in word, which begins
\* at or after the end of that top.
MatchesTopThenWord(str, tops, word) ==
    LET l == LowerCase(str)
    IN  \E top \in tops : \E j \in 1..Len(l) :
            /\ OccursAt(l, top, j)
            /\ j + Len(top) <= Len(l) - Len(word) + 1
            /\ OccursAt(l, word, Len(l) - Len(word) + 1)

\* contentType.match(/application\/(.*)(\+)?json$/i), false of the empty string.
isJsonContentType(contentType) ==
    contentType # <<>> /\ MatchesTopThenWord(contentType, {ApplicationSlash}, JsonWord)

\* isXmlContentType with the tops of the text rule.
isXmlContentType_AnyTop(contentType) ==
    contentType # <<>> /\
        MatchesTopThenWord(contentType, {TextSlash, ApplicationSlash, ImageSlash}, XmlWord)

\* contentType.match(/application\/(.*)(\+)?xml$/i), false of the empty string.
isXmlContentType(contentType) ==
    contentType # <<>> /\ MatchesTopThenWord(contentType, {ApplicationSlash}, XmlWord)

\* contentType.startsWith('text/') or
\* contentType.match(/(text|application|image)\/(.*)(\+)?xml$/i).
isTextContentType(contentType) ==
    \/ contentType # <<>> /\ StartsWith(contentType, TextSlash)
    \/ contentType # <<>> /\
         MatchesTopThenWord(contentType, {TextSlash, ApplicationSlash, ImageSlash}, XmlWord)

\* A content-type header of a response: absent (headers.get gives null) or
\* present with the given text.
NoHeader == [null |-> TRUE, text |-> <<>>]
Header(str) == [null |-> FALSE, text |-> str]

\* response.headers.get('content-type') || 'text/plain'.
mimeTypeOf(header) == IF header.null \/ header.text = <<>> THEN TextPlain ELSE header.text

\* parseBranch with the text rule tried before the XML rule.
parseBranch_TextBeforeXml(mimeType) ==
    IF isJsonContentType(mimeType) THEN [type |-> "JSON", reader |-> "json"]
    ELSE IF isTextContentType(mimeType) THEN [type |-> "TEXT", reader |-> "text"]
    ELSE IF isXmlContentType(mimeType) THEN [type |-> "XML", reader |-> "text"]
    ELSE [type |-> "BLOB", reader |-> "blob"]

\* The branch parseResponseContent takes for a mime type: the type it names
\* and the body reader it calls.
parseBranch(mimeType) ==
    IF isJsonContentType(mimeType) THEN [type |-> "JSON", reader |-> "json"]
    ELSE IF isXmlContentType(mimeType) THEN [type |-> "XML", reader |-> "text"]
    ELSE IF isTextContentType(mimeType) THEN [type |-> "TEXT", reader |-> "text"]
    ELSE [type |-> "BLOB", reader |-> "blob"]

(***************************************************************************)
(* Building a request.                                                     *)
(***************************************************************************)
\* window.location.origin, the base URL used when no service URL is set.
AmbientOrigin == Str("https://ambient.example")

RECURSIVE fillSearchParams_JoinsArray(_, _)
\* fillSearchParams without the branch for arrays: an array is appended as
\* one entry, with its text.
fillSearchParams_JoinsArray(query, searchParams) ==
    IF query = <<>> THEN searchParams
    ELSE LET key == query[1].k
             value == query[1].v
             appended ==
                 IF Truthy(value)
                 THEN Append(searchParams, Entry(key, ToStr(value)))
                 ELSE searchParams
         IN  fillSearchParams_JoinsArray(Tail(query), appended)

RECURSIVE fillSearchParams(_, _)
\* fillSearchParams(query, searchParams): the entries of searchParams
\* afterwards.  An array value appends one entry per element, any other
\* value appends its text when it is truthy.
fillSearchParams(query, searchParams) ==
    IF query = <<>> THEN searchParams
    ELSE LET key == query[1].k
             value == query[1].v
             appended ==
                 IF value.t = "array"
                 THEN searchParams \o
                          [j \in 1..Len(value.a) |-> Entry(key, NumStr(value.a[j]))]
                 ELSE IF Truthy(value)
                 THEN Append(searchParams, Entry(key, ToStr(value)))
                 ELSE searchParams
         IN  fillSearchParams(Tail(query), appended)

RECURSIVE createHeaders(_)
\* createHeaders(dictionary): a Headers object with the text of every truthy
\* value of the dictionary.
createHeaders(dictionary) ==
    IF dictionary = <<>> THEN EmptyDict
    ELSE LET rest == createHeaders(Tail(dictionary))
         IN  IF Truthy(dictionary[1].v)
             THEN <<Entry(dictionary[1].k, ToStr(dictionary[1].v))>> \o rest
             ELSE rest

RECURSIVE JsonMembers(_)
\* The members of the JSON text of an object, separated by commas.
JsonMembers(d) ==
    IF d = <<>> THEN ""
    ELSE LET v == d[1].v
             text == IF v.t = "string" THEN "'" \o v.s \o "'" ELSE ToStr(v)
             member == "'" \o d[1].k \o "':" \o text
         IN  IF Len(d) = 1 THEN member ELSE member \o "," \o JsonMembers(Tail(d))

\* JSON.stringify(body): undefined of undefined, else the JSON text (written
\* with ' for the double quote).
JsonStringify(body) ==
    IF body.kind = "absent" THEN JsUndefined
    ELSE Str("{" \o JsonMembers(body.lit) \o "}")

\* _buildUrl with the instance params spread over the params of the call.
_buildUrl_InstanceWins(h, c, params, query) ==
    LET endpoint == [fn |-> c.endpointFn.s,
                     params |-> Spread(DictOrDefault(params, EmptyDict).lit, h[c.params])]
    IN  [base |-> JsOr(c.serviceUrl, AmbientOrigin).s,
         path |-> endpoint,
         search |-> fillSearchParams(query.lit, <<>>),
         invoked |-> <<endpoint>>]

\* this._buildUrl(params, query) on client c: the endpoint function applied
\* to the instance params overridden by params, resolved against the base,
\* with the search params filled from the query argument.
\* invoked lists the invocations of the endpoint function made on the way.
_buildUrl(h, c, params, query) ==
    LET endpoint == [fn |-> c.endpointFn.s,
                     params |-> Spread(h[c.params], DictOrDefault(params, EmptyDict).lit)]
    IN  [base |-> JsOr(c.serviceUrl, AmbientOrigin).s,
         path |-> endpoint,
         search |-> fillSearchParams(query.lit, <<>>),
         invoked |-> <<endpoint>>]

\* The requestInit fetch builds on client c.
requestInit(h, c, method, settings) ==
    [method |-> method,
     headers |-> createHeaders(
                     Spread(h[c.headers], DictOrDefault(settings.headers, EmptyDict).lit)),
     body |-> JsonStringify(settings.body),
     credentials |-> c.credentials,
     signal |-> JsOr(c.signal, settings.signal)]

(***************************************************************************)
(* The calls.  A call is suspended twice: at the transport (pc "sent") and *)
(* at the body read (pc "reading"); everything between two suspensions is  *)
(* one step.                                                               *)
(***************************************************************************)
NoContent == [shape |-> "none", of |-> ""]

NoResult ==
    [type |-> "", method |-> "", rawContent |-> NoContent, content |-> NoContent,
     response |-> 0, status |-> 0, mimeType |-> <<>>, endpointFn |-> JsUndefined]

(***************************************************************************)
(* The values an interceptor throws.  JavaScript throws any value: an      *)
(* object (an Error), which may own the bypass marker as a property with   *)
(* any value, or a primitive, null and undefined included.                 *)
(***************************************************************************)
NoThrown == [t |-> "", id |-> "", own |-> FALSE, marker |-> JsUndefined]

\* new Error(id): an object without the marker.
ErrorObject(id) == [t |-> "object", id |-> id, own |-> FALSE, marker |-> JsUndefined]

\* An error object with error[BYPASS_HTTP_CONTENT_INTERCEPTION_ERROR] = v.
Marked(id, v) == [t |-> "object", id |-> id, own |-> TRUE, marker |-> v]

ThrownNull == [t |-> "null", id |-> "", own |-> FALSE, marker |-> JsUndefined]

ThrownString(str) == [t |-> "string", id |-> str, own |-> FALSE, marker |-> JsUndefined]

\* Object.prototype.hasOwnProperty.call(error, BYPASS_HTTP_CONTENT_INTERCEPTION_ERROR):
\* a TypeError when error is null or undefined (it has no object form),
\* else whether the value owns the property, whatever the property holds.
hasOwnProperty(error) ==
    IF error.t \in {"null", "undefined"}
    THEN [threw |-> TRUE, has |-> FALSE]
    ELSE [threw |-> FALSE, has |-> error.own]

NoCallError ==
    [class |-> "", name |-> "", message |-> "", result |-> NoResult,
     innerError |-> NoThrown, value |-> NoThrown]

\* What the client holds at one moment, by content.
Snapshot(h, c) ==
    [serviceUrl |-> c.serviceUrl, endpointFn |-> c.endpointFn,
     params |-> h[c.params], query |-> h[c.query], headers |-> h[c.headers],
     credentials |-> c.credentials, signal |-> c.signal,
     contentInterceptorFn |-> c.contentInterceptorFn]

NoSnapshot ==
    [serviceUrl |-> JsUndefined, endpointFn |-> JsUndefined,
     params |-> EmptyDict, query |-> EmptyDict, headers |-> EmptyDict,
     credentials |-> JsUndefined, signal |-> JsUndefined,
     contentInterceptorFn |-> JsUndefined]

IdleCall ==
    [pc |-> "idle",
     client |-> 0,
     url |-> [base |-> "", path |-> [fn |-> "", params |-> EmptyDict], search |-> <<>>,
              invoked |-> <<>>],
     request |-> [method |-> "", headers |-> EmptyDict, body |-> JsUndefined,
                  credentials |-> JsUndefined, signal |-> JsUndefined],
     issued |-> NoSnapshot,
     settings |-> [params |-> Absent, query |-> Absent, headers |-> Absent,
                   body |-> Absent, signal |-> JsUndefined],
     response |-> [status |-> 0, contentType |-> NoHeader,
                   body |-> [text |-> "", json |-> FALSE]],
     parse |-> [type |-> "", reader |-> "", endpointFn |-> JsUndefined],
     reads |-> <<>>,
     interceptions |-> <<>>,
     result |-> NoResult,
     error |-> NoCallError]

\* response.ok: the status is in the range 200-299.
Ok(status) == status >= 200 /\ status <= 299

\* this.fetch(method, settings) on client i, up to the await of the
\* transport: call k is issued.
\* fetch assigning the headers of the call into the headers of the client
\* before it builds the request.
fetch_MergesIntoInstance(k, i, method, settings) ==
    /\ calls[k].pc = "idle"
    /\ clients[i].exists
    /\ calls' = [calls EXCEPT ![k] =
           [@ EXCEPT !.pc = "sent",
                     !.client = i,
                     !.request = requestInit(heap, clients[i], method, settings),
                     !.url = _buildUrl(heap, clients[i], settings.params,
                                       DictOrDefault(settings.query, EmptyDict)),
                     !.issued = Snapshot(heap, clients[i]),
                     !.settings = settings]]
    /\ heap' = [heap EXCEPT ![clients[i].headers] =
                    Spread(@, DictOrDefault(settings.headers, EmptyDict).lit)]
    /\ UNCHANGED <<clients, thrown>>

fetch(k, i, method, settings) ==
    /\ calls[k].pc = "idle"
    /\ clients[i].exists
    /\ calls' = [calls EXCEPT ![k] =
           [@ EXCEPT !.pc = "sent",
                     !.client = i,
                     !.request = requestInit(heap, clients[i], method, settings),
                     !.url = _buildUrl(heap, clients[i], settings.params,
                                       DictOrDefault(settings.query, EmptyDict)),
                     !.issued = Snapshot(heap, clients[i]),
                     !.settings = settings]]
    /\ UNCHANGED <<heap, clients, thrown>>

\* The settings get and del hand to fetch: params, query, headers and signal.
WithoutBody(settings) == [settings EXCEPT !.body = Absent]

\* get(settings) on client i: HttpClient picks params, query, headers and
\* signal out of settings, HttpClientBase hands settings on.
get(k, i, settings) ==
    IF clients[i].class = "HttpClientBase"
    THEN fetch(k, i, "GET", settings)
    ELSE fetch(k, i, "GET", WithoutBody(settings))

\* post(settings) on client i.
post(k, i, settings) == fetch(k, i, "POST", settings)

\* put(settings) on client i.
put(k, i, settings) == fetch(k, i, "PUT", settings)

\* del(settings) on client i: as get.
del(k, i, settings) ==
    IF clients[i].class = "HttpClientBase"
    THEN fetch(k, i, "DELETE", settings)
    ELSE fetch(k, i, "DELETE", WithoutBody(settings))

\* TransportRejects with the call issued again after a rejection.
TransportRejects_Retries(k) ==
    /\ calls[k].pc = "sent"
    /\ calls' = [calls EXCEPT ![k] = [@ EXCEPT !.pc = "idle"]]
    /\ UNCHANGED <<heap, clients, thrown>>

\* The transport rejects call k (a network failure, an abort).
TransportRejects(k) ==
    /\ calls[k].pc = "sent"
    /\ calls' = [calls EXCEPT ![k] =
           [@ EXCEPT !.pc = "rejected",
                     !.error = [NoCallError EXCEPT !.class = "TransportError"]]]
    /\ UNCHANGED <<heap, clients, thrown>>

\* The transport resolves call k with a response: parseResponseContent runs
\* up to the await of the body reader it chose.
parseResponseContent(k, response) ==
    /\ calls[k].pc = "sent"
    /\ LET branch == parseBranch(mimeTypeOf(response.contentType))
       IN  calls' = [calls EXCEPT ![k] =
               [@ EXCEPT !.pc = "reading",
                         !.response = response,
                         !.parse = [type |-> branch.type,
                                    reader |-> branch.reader,
                                    endpointFn |-> clients[calls[k].client].endpointFn],
                         !.reads = Append(@, branch.reader)]]
    /\ UNCHANGED <<heap, clients, thrown>>

\* The body reader of call k rejects (the body is no JSON text, the
\* connection breaks).
\* A body read that rejects and has the call wait for the transport again.
BodyRejects_Rereads(k) ==
    /\ calls[k].pc = "reading"
    /\ calls' = [calls EXCEPT ![k] = [@ EXCEPT !.pc = "sent", !.reads = <<>>]]
    /\ UNCHANGED <<heap, clients, thrown>>

BodyRejects(k) ==
    /\ calls[k].pc = "reading"
    /\ calls' = [calls EXCEPT ![k] =
           [@ EXCEPT !.pc = "rejected",
                     !.error = [NoCallError EXCEPT !.class = "BodyError"]]]
    /\ UNCHANGED <<heap, clients, thrown>>

\* The value the returning interceptors make of a result.
Picked(result) == [shape |-> "picked", of |-> result.rawContent.of]

\* The result object after an interceptor cleared its rawContent.
Stripped(result) == [result EXCEPT !.rawContent = NoContent]

\* What calling contentInterceptorFn(result) does, by the name of the
\* function: whether it throws, the value it returns, the value it throws,
\* and the result object as it leaves it (an interceptor is handed the
\* object itself and may assign to it).
\*   pickData            returns a value made from the result
\*   stripAndPick        clears result.rawContent, then returns that value
\*   failing             throws new Error
\*   stripAndFail        clears result.rawContent, then throws new Error
\*   bypassing           throws an error whose marker is true
\*   bypassingFalse      throws an error whose marker is false
\*   bypassingUndefined  throws an error whose marker is undefined
\*   throwsNull          throws null
\*   throwsText          throws a string
InterceptorOutcome(fn, result) ==
    CASE fn.s = "pickData" ->
             [threw |-> FALSE, value |-> Picked(result), error |-> NoThrown,
              after |-> result]
      [] fn.s = "stripAndPick" ->
             [threw |-> FALSE, value |-> Picked(result), error |-> NoThrown,
              after |-> Stripped(result)]
      [] fn.s = "stripAndFail" ->
             [threw |-> TRUE, value |-> NoContent, error |-> ErrorObject("boom"),
              after |-> Stripped(result)]
      [] fn.s = "bypassing" ->
             [threw |-> TRUE, value |-> NoContent,
              error |-> Marked("bypass", Bool(TRUE)), after |-> result]
      [] fn.s = "bypassingFalse" ->
             [threw |-> TRUE, value |-> NoContent,
              error |-> Marked("bypass", Bool(FALSE)), after |-> result]
      [] fn.s = "bypassingUndefined" ->
             [threw |-> TRUE, value |-> NoContent,
              error |-> Marked("bypass", JsUndefined), after |-> result]
      [] fn.s = "throwsNull" ->
             [threw |-> TRUE, value |-> NoContent, error |-> ThrownNull,
              after |-> result]
      [] fn.s = "throwsText" ->
             [threw |-> TRUE, value |-> NoContent, error |-> ThrownString("boom"),
              after |-> result]
      [] OTHER ->
             [threw |-> TRUE, value |-> NoContent, error |-> ErrorObject("boom"),
              after |-> result]

\* HttpClientResponseError that keeps the status only.
HttpClientResponseError_StatusOnly(result) ==
    [class |-> "HttpClientResponseError", name |-> "HttpUnsuccessResponseError",
     message |-> "Request failed",
     result |-> [NoResult EXCEPT !.status = result.status],
     innerError |-> NoThrown, value |-> NoThrown]

\* new HttpClientResponseError(result).
HttpClientResponseError(result) ==
    [class |-> "HttpClientResponseError", name |-> "HttpUnsuccessResponseError",
     message |-> "Request failed", result |-> result,
     innerError |-> NoThrown, value |-> NoThrown]

\* new HttpContentInterceptionError(result, innerError).
HttpContentInterceptionError(result, innerError) ==
    [class |-> "HttpContentInterceptionError", name |-> "HttpUnsuccessResponseError",
     message |-> "Http response content interception failed", result |-> result,
     innerError |-> innerError, value |-> NoThrown]

\* The payload parseResponseContent makes of the body that was read.
RawContent(type, body) ==
    CASE type = "JSON" -> [shape |-> "object", of |-> body.text]
      [] type = "XML" -> [shape |-> "document", of |-> body.text]
      [] type = "TEXT" -> [shape |-> "string", of |-> body.text]
      [] OTHER -> [shape |-> "blob", of |-> body.text]

\* The result fetch builds once the body is read: the object
\* parseResponseContent returns, with endpointFn read again from the client.
fetchResult(k, c) ==
    LET call == calls[k]
        raw == RawContent(call.parse.type, call.response.body)
        parsed == [type |-> call.parse.type,
                   method |-> JsOr(Str(call.request.method), Str("GET")).s,
                   rawContent |-> raw,
                   content |-> raw,
                   response |-> k,
                   status |-> call.response.status,
                   mimeType |-> mimeTypeOf(call.response.contentType),
                   endpointFn |-> call.parse.endpointFn]
    IN  [parsed EXCEPT !.endpointFn = c.endpointFn]

\* transformResultContent with the interceptor's value stored as rawContent
\* as well.
transformResultContent_OverwritesRaw(call, result, contentInterceptorFn) ==
    LET outcome == InterceptorOutcome(contentInterceptorFn, result)
        called == [call EXCEPT !.interceptions = Append(@, contentInterceptorFn.s)]
    IN  IF ~outcome.threw
        THEN [called EXCEPT !.pc = "resolved",
                            !.result = [result EXCEPT !.content = outcome.value,
                                                      !.rawContent = outcome.value]]
        ELSE [called EXCEPT !.pc = "interceptionError",
                            !.error = HttpContentInterceptionError(outcome.after,
                                                                   outcome.error)]

\* transformResultContent with the marker compared by value: only a truthy
\* marker bypasses.
transformResultContent_MarkerByValue(call, result, contentInterceptorFn) ==
    LET outcome == InterceptorOutcome(contentInterceptorFn, result)
        called == [call EXCEPT !.interceptions = Append(@, contentInterceptorFn.s)]
    IN  IF ~outcome.threw
        THEN [called EXCEPT !.pc = "resolved",
                            !.result = [result EXCEPT !.content = outcome.value]]
        ELSE IF outcome.error.own /\ Truthy(outcome.error.marker)
        THEN [called EXCEPT !.pc = "thrown",
                            !.error = [NoCallError EXCEPT !.class = "Thrown",
                                                      !.value = outcome.error]]
        ELSE [called EXCEPT !.pc = "interceptionError",
                            !.error = HttpContentInterceptionError(outcome.after,
                                                                   outcome.error)]

\* transformResultContent(result, contentInterceptorFn): how call k ends.
\* The returned object is spread from result before the interceptor is
\* called, so it has the fields result had then; the error made in the
\* catch block is given the result object as the interceptor left it.
transformResultContent(call, result, contentInterceptorFn) ==
    LET outcome == InterceptorOutcome(contentInterceptorFn, result)
        called == [call EXCEPT !.interceptions = Append(@, contentInterceptorFn.s)]
    IN  IF ~outcome.threw
        THEN [called EXCEPT !.pc = "resolved",
                            !.result = [result EXCEPT !.content = outcome.value]]
        ELSE IF hasOwnProperty(outcome.error).threw
        THEN [called EXCEPT !.pc = "thrown",
                            !.error = [NoCallError EXCEPT !.class = "TypeError"]]
        ELSE IF hasOwnProperty(outcome.error).has
        THEN [called EXCEPT !.pc = "thrown",
                            !.error = [NoCallError EXCEPT !.class = "Thrown",
                                                      !.value = outcome.error]]
        ELSE [called EXCEPT !.pc = "interceptionError",
                            !.error = HttpContentInterceptionError(outcome.after,
                                                                   outcome.error)]

\* fetchResume with the interceptor applied before the status is looked at.
fetchResume_InterceptFirst(k) ==
    /\ calls[k].pc = "reading"
    /\ calls[k].parse.reader = "json" => calls[k].response.body.json
    /\ LET c == clients[calls[k].client]
           result == fetchResult(k, c)
       IN  calls' = [calls EXCEPT ![k] =
               IF Truthy(c.contentInterceptorFn)
               THEN transformResultContent(@, result, c.contentInterceptorFn)
               ELSE IF ~Ok(calls[k].response.status)
               THEN [@ EXCEPT !.pc = "responseError",
                              !.error = HttpClientResponseError(result)]
               ELSE [@ EXCEPT !.pc = "resolved", !.result = result]]
    /\ UNCHANGED <<heap, clients, thrown>>

\* The body reader of call k resolves: fetch builds the result, raises
\* HttpClientResponseError when the response is not ok, otherwise applies the
\* interceptor the client has now, if any, and returns.
fetchResume(k) ==
    /\ calls[k].pc = "reading"
    /\ calls[k].parse.reader = "json" => calls[k].response.body.json
    /\ LET c == clients[calls[k].client]
           result == fetchResult(k, c)
       IN  calls' = [calls EXCEPT ![k] =
               IF ~Ok(calls[k].response.status)
               THEN [@ EXCEPT !.pc = "responseError",
                              !.error = HttpClientResponseError(result)]
               ELSE IF Truthy(c.contentInterceptorFn)
               THEN transformResultContent(@, result, c.contentInterceptorFn)
               ELSE [@ EXCEPT !.pc = "resolved", !.result = result]]
    /\ UNCHANGED <<heap, clients, thrown>>

(***************************************************************************)
(* The endpoint template tag: endpoint`...` is called with the chunks of   *)
(* the template and the interpolated values.  template records the last    *)
(* invocation: what it was given and how it ended ("called" while it has   *)
(* not ended).                                                             *)
(***************************************************************************)
\* No template has been evaluated.
NoTemplate ==
    [pc |-> "none", strings |-> <<>>, values |-> <<>>, result |-> "",
     error |-> [name |-> "", message |-> "", parameterType |-> ""]]

\* new InvalidHttpEndpointParameterError(parameterType).
InvalidHttpEndpointParameterError(parameterType) ==
    [name |-> "InvalidHttpEndpointParameterError",
     message |-> "All endpoint parameters must be fulfilled.",
     parameterType |-> parameterType]

\* The parameterType of a test that takes every falsy value for missing.
ParameterTypeOf_Falsy(value) ==
    IF value.t = "undefined" THEN "UNDEFINED"
    ELSE IF value.t = "null" THEN "NULL"
    ELSE IF ~Truthy(value) THEN "EMPTY_STRING"
    ELSE IF value.t = "object" /\ value.n = 0 THEN "MISSING_TO_STRING"
    ELSE ""

\* The parameterType the loop computes for a value: the case that makes
\* the value invalid, "" (null in the source) for a valid value.
ParameterTypeOf(value) ==
    IF value.t = "undefined" THEN "UNDEFINED"
    ELSE IF value.t = "null" THEN "NULL"
    ELSE IF value.t = "string" /\ value.s = "" THEN "EMPTY_STRING"
    ELSE IF value.t = "object" /\ value.n = 0 THEN "MISSING_TO_STRING"
    ELSE ""

RECURSIVE endpointLoop_LastInvalid(_, _, _, _)
\* The loop of endpoint checking the values from the last to the first
\* before it builds the result.
endpointLoop_LastInvalid(strings, values, i, result) ==
    IF \E j \in i..Len(values) : ParameterTypeOf(values[j]) # ""
    THEN LET j == CHOOSE j \in i..Len(values) :
                      /\ ParameterTypeOf(values[j]) # ""
                      /\ \A m \in (j + 1)..Len(values) : ParameterTypeOf(values[m]) = ""
         IN  [threw |-> TRUE, result |-> "", parameterType |-> ParameterTypeOf(values[j])]
    ELSE IF i > Len(values)
         THEN [threw |-> FALSE, result |-> result, parameterType |-> ""]
         ELSE endpointLoop_LastInvalid(strings, values, i + 1,
                                       result \o ToStr(values[i]) \o strings[i + 1])

RECURSIVE endpointLoop(_, _, _, _)
\* The loop of endpoint from index i (counted from 1) with the result built
\* so far: the first invalid value ends it with an error.
endpointLoop(strings, values, i, result) ==
    IF i > Len(values) THEN [threw |-> FALSE, result |-> result, parameterType |-> ""]
    ELSE IF ParameterTypeOf(values[i]) # ""
         THEN [threw |-> TRUE, result |-> "", parameterType |-> ParameterTypeOf(values[i])]
         ELSE endpointLoop(strings, values, i + 1,
                           result \o ToStr(values[i]) \o strings[i + 1])

\* endpoint(strings, ...values), the tag of a template literal.
endpoint(strings, values) ==
    LET outcome == endpointLoop(strings, values, 1, strings[1])
    IN  /\ template' =
               IF outcome.threw
               THEN [pc |-> "thrown", strings |-> strings, values |-> values,
                     result |-> "",
                     error |-> InvalidHttpEndpointParameterError(outcome.parameterType)]
               ELSE [pc |-> "returned", strings |-> strings, values |-> values,
                     result |-> outcome.result, error |-> NoTemplate.error]
        /\ thrown' = IF outcome.threw
                     THEN InvalidHttpEndpointParameterError(outcome.parameterType).message
                     ELSE NoError
        /\ UNCHANGED <<heap, clients, calls>>

(***************************************************************************)
(* The configuration specification: a client built by the constructor,     *)
(* its clone, and the setters on both, with objects the caller holds on    *)
(* to and passes more than once.                                           *)
(***************************************************************************)
\* The objects the caller holds when the client is constructed.
CallerHeap ==
    [o \in ObjIds |->
        CASE o = "o1" -> <<Entry("a", Num(1))>>
          [] OTHER -> EmptyDict]

\* The state after new HttpClientBase(settings) with nothing else done.
ConstructedBase(settings) ==
    /\ clients = [i \in Clients |->
                     IF i = 1 THEN HttpClientBase_constructor(1, settings) ELSE NoClient]
    /\ heap = constructorHeap(CallerHeap, 1, settings)
    /\ calls = [k \in 1..MaxCalls |-> IdleCall]
    /\ thrown = NoError
    /\ setterCalls = 0
    /\ template = NoTemplate

\* The state after new HttpClient(settings) with nothing else done.
Constructed(settings) ==
    /\ clients = [i \in Clients |-> IF i = 1 THEN constructor(1, settings) ELSE NoClient]
    /\ heap = constructorHeap(CallerHeap, 1, settings)
    /\ calls = [k \in 1..MaxCalls |-> IdleCall]
    /\ thrown = NoError
    /\ setterCalls = 0
    /\ template = NoTemplate

ConfigInit ==
    \E params \in {Absent, Held("o1")},
       contentInterceptorFn \in {JsUndefined, Fn("pickData")},
       signal \in {JsUndefined, Obj("signalA")} :
        Constructed(
            [serviceUrl |-> Str("https://a.example"),
             endpointFn |-> Fn("usersEndpoint"),
             params |-> params,
             query |-> Absent,
             headers |-> Absent,
             credentials |-> JsUndefined,
             signal |-> signal,
             contentInterceptorFn |-> contentInterceptorFn])

\* The dictionary arguments the caller passes to the setters.
ConfigArgs == {Held("o1"), Literal(<<Entry("b", Num(3))>>)}

\* A call of setParams, setQuery, setHeaders or setAuthorization on client i.
ConfigSetter(i) ==
    \/ \E arg \in ConfigArgs, replace \in BOOLEAN : setParams(i, arg, replace)
    \/ setQuery(i, Literal(<<Entry("q", Num(1))>>), FALSE)
    \/ setHeaders(i, Literal(<<Entry("x-trace", Str("on"))>>), TRUE)
    \/ setAuthorization(i, Str("Bearer t"))

ConfigNext ==
    \/ clone(1, 2) /\ UNCHANGED <<setterCalls, template>>
    \/ \E i \in Clients, arg \in ConfigArgs, replace \in BOOLEAN :
           setParams(i, arg, replace) /\ UNCHANGED <<setterCalls, template>>
    \/ \E i \in Clients :
           setQuery(i, Literal(<<Entry("q", Num(1))>>), FALSE) /\ UNCHANGED <<setterCalls, template>>
    \/ \E i \in Clients :
           setHeaders(i, Literal(<<Entry("x-trace", Str("on"))>>), TRUE) /\ UNCHANGED <<setterCalls, template>>
    \/ \E i \in Clients : setAuthorization(i, Str("Bearer t")) /\ UNCHANGED <<setterCalls, template>>
    \/ setContentInterceptor(1, Fn("failing")) /\ UNCHANGED <<setterCalls, template>>

ConfigSpec == ConfigInit /\ [][ConfigNext]_vars

(***************************************************************************)
(* The request specification: one call at a time is issued on a client     *)
(* whose defaults vary, with per-call settings that vary.                  *)
(***************************************************************************)
Settings(params, query, headers, body, signal) ==
    [params |-> params, query |-> query, headers |-> headers, body |-> body,
     signal |-> signal]

NoSettings == Settings(Absent, Absent, Absent, Absent, JsUndefined)

\* The settings the client of the request specification is constructed
\* with.
RequestClients ==
    {[serviceUrl |-> Str("https://a.example"),
      endpointFn |-> Fn("usersEndpoint"),
      params |-> Literal(<<Entry("a", Num(1))>>),
      query |-> query,
      headers |-> headers,
      credentials |-> JsUndefined,
      signal |-> signal,
      contentInterceptorFn |-> JsUndefined] :
        query \in {Absent, Literal(<<Entry("page", Num(2))>>)},
        headers \in {Absent,
                     Literal(<<Entry("accept", Str("application/xml")),
                               Entry("x-page", Num(0)),
                               Entry("x-limit", Num(2))>>)},
        signal \in {JsUndefined, Obj("signalA")}}

RequestInit ==
    \E settings \in RequestClients :
        Constructed(settings) \/ ConstructedBase(settings)

\* The per-call query overrides.
RequestQueries ==
    {Absent,
     Literal(<<Entry("item", Num(0)), Entry("tags", Arr(<<>>))>>),
     Literal(<<Entry("item", Arr(<<1, 2, 3>>)), Entry("page", Num(3))>>),
     Literal(<<Entry("item", Str("")), Entry("flag", Bool(FALSE)),
               Entry("none", JsNull), Entry("q", Str("x")),
               Entry("ids", Arr(<<0, 2>>))>>)}

RequestSettings ==
    {Settings(params, query, headers, body, signal) :
        params \in {Absent, Literal(<<Entry("a", Num(2))>>)},
        query \in RequestQueries,
        headers \in {Absent,
                     Literal(<<Entry("accept", Str("text/plain")),
                               Entry("x-trace", Str("on"))>>)},
        body \in {Absent, Literal(<<Entry("name", Str("n"))>>)},
        signal \in {JsUndefined, Obj("signalB")}}

RequestNext ==
    \/ \E settings \in RequestSettings : get(1, 1, settings) /\ UNCHANGED <<setterCalls, template>>
    \/ \E settings \in RequestSettings : post(1, 1, settings) /\ UNCHANGED <<setterCalls, template>>
    \/ \E settings \in RequestSettings : put(1, 1, settings) /\ UNCHANGED <<setterCalls, template>>
    \/ \E settings \in RequestSettings : del(1, 1, settings) /\ UNCHANGED <<setterCalls, template>>
    \/ setQuery(1, Literal(<<Entry("sort", Str("asc"))>>), FALSE) /\ UNCHANGED <<setterCalls, template>>

RequestSpec == RequestInit /\ [][RequestNext]_vars

(***************************************************************************)
(* The classification specification: one call on a fixed client, answered  *)
(* with every content type made of a top-level type, a subtype and         *)
(* optional parameters.                                                    *)
(***************************************************************************)
MimeTops ==
    {<<"a", "p", "p", "l", "i", "c", "a", "t", "i", "o", "n", "/">>,
     <<"A", "p", "p", "l", "i", "c", "a", "t", "i", "o", "n", "/">>,
     <<"t", "e", "x", "t", "/">>,
     <<"T", "E", "X", "T", "/">>,
     <<"i", "m", "a", "g", "e", "/">>}

MimeSubtypes ==
    {<<"j", "s", "o", "n">>,
     <<"J", "S", "O", "N">>,
     <<"l", "d", "+", "j", "s", "o", "n">>,
     <<"x", "m", "l">>,
     <<"s", "v", "g", "+", "x", "m", "l">>,
     <<"p", "l", "a", "i", "n">>,
     <<"p", "n", "g">>}

MimeParameters ==
    {<<>>,
     <<";", " ", "c", "h", "a", "r", "s", "e", "t", "=", "u", "t", "f", "-", "8">>}

ContentTypes ==
    {NoHeader, Header(<<>>)} \cup
    {Header(top \o sub \o parameters) :
        top \in MimeTops, sub \in MimeSubtypes, parameters \in MimeParameters}

Response(status, contentType, body) ==
    [status |-> status, contentType |-> contentType, body |-> body]

JsonBody == [text |-> "{'data':1}", json |-> TRUE]
TextBody == [text |-> "<a>hello</a>", json |-> FALSE]

MimeInit ==
    Constructed(
        [serviceUrl |-> Str("https://a.example"),
         endpointFn |-> Fn("usersEndpoint"),
         params |-> Absent,
         query |-> Absent,
         headers |-> Absent,
         credentials |-> JsUndefined,
         signal |-> JsUndefined,
         contentInterceptorFn |-> JsUndefined])

MimeNext ==
    \/ get(1, 1, NoSettings) /\ UNCHANGED <<setterCalls, template>>
    \/ \E contentType \in ContentTypes, status \in {200, 404}, body \in {JsonBody, TextBody} :
           parseResponseContent(1, Response(status, contentType, body))
               /\ UNCHANGED <<setterCalls, template>>
    \/ BodyRejects(1) /\ UNCHANGED <<setterCalls, template>>
    \/ fetchResume(1) /\ UNCHANGED <<setterCalls, template>>

MimeSpec == MimeInit /\ [][MimeNext]_vars

(***************************************************************************)
(* The call specification: a call in flight on a client while setters are  *)
(* called on it.                                                           *)
(***************************************************************************)
Init ==
    \E contentInterceptorFn \in {JsUndefined, Fn("pickData")} :
        Constructed(
            [serviceUrl |-> Str("https://a.example"),
             endpointFn |-> Fn("usersEndpoint"),
             params |-> Absent,
             query |-> Absent,
             headers |-> Absent,
             credentials |-> JsUndefined,
             signal |-> JsUndefined,
             contentInterceptorFn |-> contentInterceptorFn])

Responses ==
    {Response(200, Header(<<"a", "p", "p", "l", "i", "c", "a", "t", "i", "o", "n", "/", "j", "s", "o", "n">>), JsonBody),
     Response(404, Header(<<"a", "p", "p", "l", "i", "c", "a", "t", "i", "o", "n", "/", "j", "s", "o", "n">>), JsonBody),
     Response(200, NoHeader, TextBody)}

\* One more setter call is made.
Counted ==
    /\ setterCalls < MaxSetterCalls
    /\ setterCalls' = setterCalls + 1
    /\ UNCHANGED template

Next ==
    \/ setServiceUrl(1, Str("https://b.example")) /\ Counted
    \/ setEndpoint(1, Fn("groupsEndpoint")) /\ Counted
    \/ setParams(1, Literal(<<Entry("a", Num(1))>>), FALSE) /\ Counted
    \/ setQuery(1, Literal(<<Entry("page", Num(2))>>), FALSE) /\ Counted
    \/ setHeaders(1, Literal(<<Entry("x-trace", Str("on"))>>), FALSE) /\ Counted
    \/ setSignal(1, Obj("signalA")) /\ Counted
    \/ \E fn \in {Fn("pickData"), Fn("failing"), Fn("bypassing")} :
           setContentInterceptor(1, fn) /\ Counted
    \/ get(1, 1, NoSettings) /\ UNCHANGED <<setterCalls, template>>
    \/ TransportRejects(1) /\ UNCHANGED <<setterCalls, template>>
    \/ \E response \in Responses :
           parseResponseContent(1, response) /\ UNCHANGED <<setterCalls, template>>
    \/ BodyRejects(1) /\ UNCHANGED <<setterCalls, template>>
    \/ fetchResume(1) /\ UNCHANGED <<setterCalls, template>>

Spec == Init /\ [][Next]_vars

(***************************************************************************)
(* The interception specification: one call on a client configured with    *)
(* any of the interceptors or with none, answered with success and failure *)
(* responses of every type.                                                *)
(***************************************************************************)
Interceptors ==
    {Fn("pickData"), Fn("stripAndPick"), Fn("failing"), Fn("stripAndFail"),
     Fn("bypassing"), Fn("bypassingFalse"), Fn("bypassingUndefined"),
     Fn("throwsNull"), Fn("throwsText")}

InterceptInit ==
    \E contentInterceptorFn \in {JsUndefined} \cup Interceptors :
        Constructed(
            [serviceUrl |-> Str("https://a.example"),
             endpointFn |-> Fn("usersEndpoint"),
             params |-> Absent,
             query |-> Absent,
             headers |-> Absent,
             credentials |-> JsUndefined,
             signal |-> JsUndefined,
             contentInterceptorFn |-> contentInterceptorFn])

InterceptContentTypes ==
    {NoHeader,
     Header(ApplicationSlash \o JsonWord),
     Header(ApplicationSlash \o XmlWord),
     Header(ImageSlash \o <<"p", "n", "g">>)}

\* Settings of a call that override the params, the query and the headers
\* of the client and bring a body and a signal.
OverridingSettings ==
    Settings(Literal(<<Entry("a", Num(2))>>),
             Literal(<<Entry("page", Num(2))>>),
             Literal(<<Entry("accept", Str("text/plain")), Entry("x-trace", Str("on"))>>),
             Literal(<<Entry("name", Str("n"))>>),
             Obj("signalB"))

InterceptNext ==
    \/ \E settings \in {NoSettings, OverridingSettings} :
           get(1, 1, settings) /\ UNCHANGED <<setterCalls, template>>
    \/ \E settings \in {Settings(Absent, Absent, Absent,
                                 Literal(<<Entry("name", Str("n"))>>), JsUndefined),
                        OverridingSettings} :
           post(1, 1, settings) /\ UNCHANGED <<setterCalls, template>>
    \/ put(1, 1, OverridingSettings) /\ UNCHANGED <<setterCalls, template>>
    \/ del(1, 1, OverridingSettings) /\ UNCHANGED <<setterCalls, template>>
    \/ TransportRejects(1) /\ UNCHANGED <<setterCalls, template>>
    \/ \E contentType \in InterceptContentTypes, status \in {200, 204, 404, 500},
          body \in {JsonBody, TextBody} :
           parseResponseContent(1, Response(status, contentType, body))
               /\ UNCHANGED <<setterCalls, template>>
    \/ BodyRejects(1) /\ UNCHANGED <<setterCalls, template>>
    \/ fetchResume(1) /\ UNCHANGED <<setterCalls, template>>

InterceptSpec == InterceptInit /\ [][InterceptNext]_vars

(***************************************************************************)
(* The setter specification: every setter is called on one client, with    *)
(* arguments it accepts and with arguments it rejects, and a call is       *)
(* issued on the client in between.                                        *)
(***************************************************************************)
SetterInit ==
    Constructed(
        [serviceUrl |-> Str("https://a.example"),
         endpointFn |-> Fn("usersEndpoint"),
         params |-> Absent,
         query |-> Absent,
         headers |-> Absent,
         credentials |-> JsUndefined,
         signal |-> JsUndefined,
         contentInterceptorFn |-> JsUndefined])

\* The arguments of setParams: the object {a: 1} the caller holds, and two
\* literals, one of them with another value for a.
ParamsArgs ==
    {Held("o1"), Literal(<<Entry("b", Num(2))>>),
     Literal(<<Entry("a", Num(3)), Entry("c", Num(0))>>)}

QueryArgs == {Literal(<<Entry("q", Num(1))>>)}

HeadersArgs == {Literal(<<Entry("accept", Str("text/plain")), Entry("x-trace", Str("on"))>>)}

\* The arguments of setEndpoint that are no function.
NotFunctions == {JsUndefined, JsNull, Str("/users")}

UserName == Text(<<"u", "s", "e", "r">>)

Password == Text(<<"p", "w">>)

\* The argument pairs of setBasicAuthCredentials with one or both missing.
MissingCredentials ==
    {<<JsUndefined, Password>>, <<UserName, JsUndefined>>, <<JsNull, JsNull>>}

SetterNext ==
    \/ \E serviceUrl \in {Str("https://b.example"), JsUndefined, JsNull} :
           setServiceUrl(1, serviceUrl) /\ Counted
    \/ \E endpointFn \in {Fn("groupsEndpoint")} \cup NotFunctions :
           setEndpoint(1, endpointFn) /\ Counted
    \/ \E authorization \in {Str("Token t"), JsUndefined} :
           setAuthorization(1, authorization) /\ Counted
    \/ \E token \in {Str("dDp0"), JsUndefined} : setBasicAuth(1, token) /\ Counted
    \/ \E token \in {Str("t"), JsUndefined} : setBearerAuth(1, token) /\ Counted
    \/ \E pair \in {<<UserName, Password>>} \cup MissingCredentials :
           setBasicAuthCredentials(1, pair[1], pair[2]) /\ Counted
    \/ \E arg \in ParamsArgs, replace \in BOOLEAN : setParams(1, arg, replace) /\ Counted
    \/ \E arg \in QueryArgs, replace \in BOOLEAN : setQuery(1, arg, replace) /\ Counted
    \/ \E arg \in HeadersArgs, replace \in BOOLEAN : setHeaders(1, arg, replace) /\ Counted
    \/ setSignal(1, Obj("signalA")) /\ Counted
    \/ \E fn \in {Fn("pickData"), JsUndefined, Str("pickData")} :
           setContentInterceptor(1, fn) /\ Counted
    \/ get(1, 1, NoSettings) /\ UNCHANGED <<setterCalls, template>>

SetterSpec == SetterInit /\ [][SetterNext]_vars

(***************************************************************************)
(* The endpoint specification: a template of up to MaxValues interpolated  *)
(* values, each value any of the kinds the tag tells apart, is evaluated   *)
(* before any client is built.                                             *)
(***************************************************************************)
\* The chunks between which the values are interpolated.
Chunks == <<"/api/groups/", "/users/", "/items/", "/parts/">>

\* The chunks of a template with n values: n chunks and the text after the
\* last value.
TemplateStrings(n) == {SubSeq(Chunks, 1, n) \o <<last>> : last \in {"", "/end"}}

\* The values that endpoint accepts.
ValidValues ==
    {Num(0), Num(1), Bool(FALSE), Bool(TRUE), Str("gr1"), WithToString("gr2")}

\* The values that endpoint rejects.
InvalidValues == {JsUndefined, JsNull, Str(""), Obj("plain")}

\* The sequences of n values.
ValueLists(n) == [1..n -> ValidValues \cup InvalidValues]

\* The template literal is about to be evaluated: the tag is called with
\* its chunks and its values.
EndpointInit ==
    /\ clients = [i \in Clients |-> NoClient]
    /\ heap = CallerHeap
    /\ calls = [k \in 1..MaxCalls |-> IdleCall]
    /\ thrown = NoError
    /\ setterCalls = 0
    /\ \E n \in 0..MaxValues :
           \E strings \in TemplateStrings(n), values \in ValueLists(n) :
               template = [NoTemplate EXCEPT !.pc = "called", !.strings = strings,
                                             !.values = values]

EndpointNext ==
    /\ template.pc = "called"
    /\ endpoint(template.strings, template.values)
    /\ UNCHANGED setterCalls

EndpointSpec == EndpointInit /\ [][EndpointNext]_vars

(***************************************************************************)
(* The fair specification: MaxCalls calls are issued on one client and     *)
(* run interleaved with each other and with any number of setEndpoint      *)
(* calls.  The transport of a call that was sent settles, with a response  *)
(* or with a rejection, and so does the body read of a call that is        *)
(* reading; the continuation of fetch runs when the promise it awaits has  *)
(* settled.                                                                *)
(***************************************************************************)
LiveInit ==
    \E contentInterceptorFn \in {JsUndefined, Fn("failing")} :
        Constructed(
            [serviceUrl |-> Str("https://a.example"),
             endpointFn |-> Fn("usersEndpoint"),
             params |-> Absent,
             query |-> Absent,
             headers |-> Absent,
             credentials |-> JsUndefined,
             signal |-> JsUndefined,
             contentInterceptorFn |-> contentInterceptorFn])

LiveResponses ==
    {Response(200, Header(ApplicationSlash \o JsonWord), JsonBody),
     Response(404, NoHeader, TextBody)}

\* The transport of call k settles.
TransportSettles(k) ==
    \/ TransportRejects(k) /\ UNCHANGED <<setterCalls, template>>
    \/ \E response \in LiveResponses :
           parseResponseContent(k, response) /\ UNCHANGED <<setterCalls, template>>

\* The body read of call k settles.
BodyReadSettles(k) ==
    \/ BodyRejects(k) /\ UNCHANGED <<setterCalls, template>>
    \/ fetchResume(k) /\ UNCHANGED <<setterCalls, template>>

LiveNext ==
    \/ setEndpoint(1, Fn("groupsEndpoint")) /\ UNCHANGED <<setterCalls, template>>
    \/ \E k \in 1..MaxCalls : get(k, 1, NoSettings) /\ UNCHANGED <<setterCalls, template>>
    \/ \E k \in 1..MaxCalls : TransportSettles(k)
    \/ \E k \in 1..MaxCalls : BodyReadSettles(k)

LiveSpec ==
    /\ LiveInit
    /\ [][LiveNext]_vars
    /\ \A k \in 1..MaxCalls : WF_vars(TransportSettles(k)) /\ WF_vars(BodyReadSettles(k))

(***************************************************************************)
(* Claims about the configuration (ConfigSpec).                            *)
(***************************************************************************)
\* The entries of the three dictionaries of client c.
Dicts(h, c) == [f \in Fields |-> Deref(h, c, f)]

\* The other one of the two clients.
Other(i) == 3 - i

\* C1: once the clone exists, a call of setParams, setQuery, setHeaders or
\* setAuthorization (merging or replacing) on one of the two clients leaves
\* the params, query and headers of the other one as they were.
C1_CloneIsolation ==
    [][\A i \in Clients :
          (clients[1].exists /\ clients[2].exists /\ ConfigSetter(i))
              => Dicts(heap', clients'[Other(i)]) = Dicts(heap, clients[Other(i)])]_vars

\* The state of client a equals, by content, the state of client b.
SameState(h, a, b) ==
    /\ a.serviceUrl = b.serviceUrl
    /\ a.endpointFn = b.endpointFn
    /\ Dicts(h, a) = Dicts(h, b)
    /\ a.credentials = b.credentials
    /\ a.signal = b.signal
    /\ a.contentInterceptorFn = b.contentInterceptorFn

\* C2: right after c2 = c.clone(), every field of c2 equals by content the
\* field of c, the content interceptor included.
C2_CloneCopiesAll ==
    [][clone(1, 2) => SameState(heap', clients'[1], clients'[2])]_vars

(***************************************************************************)
(* Claims about the request (RequestSpec).                                 *)
(***************************************************************************)
Issued(k) == calls[k].pc # "idle"

\* C3: the query string of every request is built from the query the client
\* held when the call was issued overridden by the query of the call.
C3_QueryMergesInstanceQuery ==
    \A k \in 1..MaxCalls :
        Issued(k) =>
            calls[k].url.search =
                fillSearchParams(
                    Spread(calls[k].issued.query, calls[k].settings.query.lit), <<>>)

\* The values a query entry is skipped for, according to the specification.
SkippedValue(v) ==
    \/ v.t \in {"null", "undefined"}
    \/ v.t = "string" /\ v.s = ""
    \/ v.t = "boolean" /\ v.n = 0

\* C4: every entry of the query of a call whose value is no array and is
\* none of null, undefined, '' and false is in the query string with the
\* text of its value; the number 0 is.
C4_ZeroIsPresent ==
    \A k \in 1..MaxCalls :
        Issued(k) =>
            \A j \in 1..Len(calls[k].settings.query.lit) :
                LET e == calls[k].settings.query.lit[j]
                IN  (e.v.t # "array" /\ ~SkippedValue(e.v)) =>
                        \E m \in 1..Len(calls[k].url.search) :
                            calls[k].url.search[m] = Entry(e.k, ToStr(e.v))

\* C5: the signal of the request is the signal of the call when the call
\* has one, else the signal the client held when the call was issued.
C5_CallSignalOverrides ==
    \A k \in 1..MaxCalls :
        Issued(k) =>
            calls[k].request.signal =
                IF calls[k].settings.signal.t # "undefined"
                THEN calls[k].settings.signal
                ELSE calls[k].issued.signal

(***************************************************************************)
(* Claims about a call in flight (Spec).                                   *)
(***************************************************************************)
\* Call k has ended with a result or with an error that carries one.
Outcome(k) ==
    IF calls[k].pc = "resolved" THEN calls[k].result ELSE calls[k].error.result

\* C6: a call is not affected by the setters called while it is in flight:
\* the endpointFn of its result or error is the one the client held when the
\* call was issued, and the interceptor applied to a success response is the
\* one the client held then (none when it held none).
C6_InFlightCallUnaffected ==
    \A k \in 1..MaxCalls :
        /\ calls[k].pc \in {"resolved", "responseError", "interceptionError"} =>
               Outcome(k).endpointFn = calls[k].issued.endpointFn
        /\ (calls[k].pc \in {"resolved", "interceptionError", "thrown"}) =>
               calls[k].interceptions =
                   IF Truthy(calls[k].issued.contentInterceptorFn)
                   THEN <<calls[k].issued.contentInterceptorFn.s>>
                   ELSE <<>>

\* The body read of call k settles with a payload in this step.
BodyRead(k) == calls[k].pc = "reading" /\ calls'[k].pc \notin {"reading", "rejected"}

\* C7: a response that is not a success raises the response error without
\* the interceptor being called; a success response has the configured
\* interceptor called once, and no other step calls an interceptor.
C7_NoInterceptionOnFailure ==
    [][\A k \in 1..MaxCalls :
          LET c == clients[calls[k].client]
              before == Len(calls[k].interceptions)
              after == Len(calls'[k].interceptions)
          IN  IF BodyRead(k) /\ ~Ok(calls[k].response.status)
              THEN calls'[k].pc = "responseError" /\ after = before
              ELSE IF BodyRead(k) /\ Truthy(c.contentInterceptorFn)
              THEN after = before + 1 /\ before = 0
              ELSE after = before]_vars

\* A call ended with the response error although the client has an
\* interceptor, which was not called.
C7_Witness ==
    \E k \in 1..MaxCalls :
        /\ calls[k].pc = "responseError"
        /\ Truthy(clients[calls[k].client].contentInterceptorFn)
        /\ calls[k].interceptions = <<>>

\* The result the specification describes for the response of call k: the
\* response classified and its body parsed, with the endpoint function of
\* the client.
ClassifiedResult(k, c) ==
    LET mimeType == mimeTypeOf(calls[k].response.contentType)
        raw == RawContent(parseBranch(mimeType).type, calls[k].response.body)
    IN  [type |-> parseBranch(mimeType).type,
         method |-> calls[k].request.method,
         rawContent |-> raw,
         content |-> raw,
         response |-> k,
         status |-> calls[k].response.status,
         mimeType |-> mimeType,
         endpointFn |-> c.endpointFn]

\* C8: when the body of a response that is not a success has been read, the
\* call ends with HttpClientResponseError, whose status, rawContent, content,
\* mimeType, method, type and endpointFn are those of the classified and
\* parsed response.
C8_ResponseErrorCarriesResult ==
    [][\A k \in 1..MaxCalls :
          (BodyRead(k) /\ ~Ok(calls[k].response.status)) =>
              /\ calls'[k].pc = "responseError"
              /\ calls'[k].error.class = "HttpClientResponseError"
              /\ calls'[k].error.result =
                     ClassifiedResult(k, clients[calls[k].client])]_vars

\* A call answered 404 with a JSON body ended with the response error that
\* carries the parsed body.
C8_Witness ==
    \E k \in 1..MaxCalls :
        /\ calls[k].pc = "responseError"
        /\ calls[k].error.result.status = 404
        /\ calls[k].error.result.rawContent = [shape |-> "object", of |-> JsonBody.text]

(***************************************************************************)
(* Claims about the classification (MimeSpec).                             *)
(***************************************************************************)
\* The content type is, whatever the case of its letters, some text, then
\* one of the tops, then some text, then the word at its very end.
HasTopAndEndsIn(str, tops, word) ==
    LET l == LowerCase(str)
    IN  \E top \in tops : \E a \in 0..Len(l), b \in 0..Len(l) :
            /\ a + Len(top) + b + Len(word) = Len(l)
            /\ SubSeq(l, a + 1, a + Len(top)) = top
            /\ SubSeq(l, Len(l) - Len(word) + 1, Len(l)) = word

\* The type the four rules give, the first that matches deciding.
RuleType(mimeType) ==
    CASE HasTopAndEndsIn(mimeType, {ApplicationSlash}, JsonWord) -> "JSON"
      [] ~HasTopAndEndsIn(mimeType, {ApplicationSlash}, JsonWord)
         /\ HasTopAndEndsIn(mimeType, {ApplicationSlash}, XmlWord) -> "XML"
      [] ~HasTopAndEndsIn(mimeType, {ApplicationSlash}, JsonWord)
         /\ ~HasTopAndEndsIn(mimeType, {ApplicationSlash}, XmlWord)
         /\ (\/ SubSeq(mimeType, 1, Len(TextSlash)) = TextSlash
             \/ HasTopAndEndsIn(mimeType, {TextSlash, ApplicationSlash, ImageSlash}, XmlWord))
             -> "TEXT"
      [] OTHER -> "BLOB"

\* The body reader and the shape of the payload that go with a type.
ReaderOf(type) == IF type = "JSON" THEN "json" ELSE IF type = "BLOB" THEN "blob" ELSE "text"

ShapeOf(type) ==
    CASE type = "JSON" -> "object"
      [] type = "XML" -> "document"
      [] type = "TEXT" -> "string"
      [] OTHER -> "blob"

\* The content type call k was answered with, text/plain when it has none.
DeclaredType(k) ==
    IF calls[k].response.contentType.null \/ calls[k].response.contentType.text = <<>>
    THEN TextPlain
    ELSE calls[k].response.contentType.text

\* C9: the type of a response is the one the first matching rule gives for
\* its content type (text/plain when it has none); one body reader is
\* called, the one of that type, and the payload of the result or error has
\* the shape of that type.
C9_FirstMatchClassification ==
    \A k \in 1..MaxCalls :
        /\ calls[k].pc \in {"idle", "sent"} => calls[k].reads = <<>>
        /\ calls[k].pc \notin {"idle", "sent"} =>
               /\ calls[k].parse.type = RuleType(DeclaredType(k))
               /\ calls[k].reads = <<ReaderOf(RuleType(DeclaredType(k)))>>
        /\ calls[k].pc \in {"resolved", "responseError"} =>
               /\ Outcome(k).type = RuleType(DeclaredType(k))
               /\ Outcome(k).mimeType = DeclaredType(k)
               /\ Outcome(k).rawContent.shape = ShapeOf(Outcome(k).type)

\* A response declared application/xml was read as text and resolved with an
\* XML document.
C9_Witness ==
    \E k \in 1..MaxCalls :
        /\ calls[k].pc = "resolved"
        /\ calls[k].response.contentType = Header(ApplicationSlash \o XmlWord)
        /\ calls[k].result.type = "XML"
        /\ calls[k].reads = <<"text">>

\* C10: the type of a response is the type of its content type written in
\* lower case.
C10_CaseInsensitive ==
    \A k \in 1..MaxCalls :
        calls[k].pc \notin {"idle", "sent"} =>
            calls[k].parse.type = parseBranch(LowerCase(DeclaredType(k))).type

(***************************************************************************)
(* Claims about interception and the outcomes of a call (InterceptSpec).   *)
(***************************************************************************)
\* The body of a success response of call k is read in this step.
SuccessRead(k) == BodyRead(k) /\ Ok(calls[k].response.status)

\* What the interceptor the client of call k holds does with the classified
\* result of the call.
Interception(k) ==
    InterceptorOutcome(clients[calls[k].client].contentInterceptorFn,
                       ClassifiedResult(k, clients[calls[k].client]))

HasInterceptor(k) == Truthy(clients[calls[k].client].contentInterceptorFn)

\* C11: a success response whose interceptor returns v resolves with
\* content = v and with rawContent, type, status, mimeType, method, response
\* and endpointFn those of the classified result; without an interceptor
\* the call resolves with the classified result, content = rawContent.
C11_InterceptedContent ==
    [][\A k \in 1..MaxCalls :
          SuccessRead(k) =>
              IF ~HasInterceptor(k)
              THEN /\ calls'[k].pc = "resolved"
                   /\ calls'[k].result = ClassifiedResult(k, clients[calls[k].client])
                   /\ calls'[k].result.content = calls'[k].result.rawContent
              ELSE ~Interception(k).threw =>
                   /\ calls'[k].pc = "resolved"
                   /\ calls'[k].result =
                          [ClassifiedResult(k, clients[calls[k].client])
                              EXCEPT !.content = Interception(k).value]]_vars

\* A call resolved with the interceptor's value as content and the parsed
\* JSON payload as rawContent, although the interceptor cleared the
\* rawContent of the object it was handed.
C11_Witness ==
    \E k \in 1..MaxCalls :
        /\ calls[k].pc = "resolved"
        /\ calls[k].interceptions = <<"stripAndPick">>
        /\ calls[k].result.content = [shape |-> "picked", of |-> JsonBody.text]
        /\ calls[k].result.rawContent = [shape |-> "object", of |-> JsonBody.text]

\* C12: whatever value without the bypass marker the interceptor throws, the
\* call fails with HttpContentInterceptionError whose innerError is that
\* value and whose result is the classified result, content = rawContent.
C12_UnmarkedThrowIsWrapped ==
    [][\A k \in 1..MaxCalls :
          (SuccessRead(k) /\ HasInterceptor(k) /\ Interception(k).threw
              /\ ~Interception(k).error.own) =>
              /\ calls'[k].pc = "interceptionError"
              /\ calls'[k].error.class = "HttpContentInterceptionError"
              /\ calls'[k].error.innerError = Interception(k).error
              /\ calls'[k].error.result = ClassifiedResult(k, clients[calls[k].client])
              /\ calls'[k].error.result.content = calls'[k].error.result.rawContent]_vars

Ended(k) == calls[k].pc \notin {"idle", "sent", "reading"}

\* C15: a call that has ended has one of five outcomes: the result, the
\* response error, the interception error, the bypass-marked value the
\* interceptor threw, or the rejection of the transport (of the request or
\* of the read of the body it answered with).
C15_OutcomeKinds ==
    \A k \in 1..MaxCalls :
        Ended(k) =>
            \/ calls[k].pc = "resolved" /\ calls[k].error = NoCallError
            \/ calls[k].pc = "responseError"
                   /\ calls[k].error.class = "HttpClientResponseError"
            \/ calls[k].pc = "interceptionError"
                   /\ calls[k].error.class = "HttpContentInterceptionError"
            \/ calls[k].pc = "thrown" /\ calls[k].error.class = "Thrown"
                   /\ calls[k].error.value.own
            \/ calls[k].pc = "rejected"
                   /\ calls[k].error.class \in {"TransportError", "BodyError"}

\* How far a call has come.
Stage(pc) ==
    CASE pc = "idle" -> 0
      [] pc = "sent" -> 1
      [] pc = "reading" -> 2
      [] OTHER -> 3

\* C16: every step of a call moves it forward (issued, sent, classified and
\* read, ended), so the transport is invoked once at most and nothing
\* happens to a call that has ended; a call that is not sent has read no
\* body and no call reads a body twice; the interceptor is called once at
\* most, and only in the step that ends the call.
C16_ForwardOnly ==
    [][\A k \in 1..MaxCalls :
          /\ calls'[k] # calls[k] => Stage(calls'[k].pc) > Stage(calls[k].pc)
          /\ calls'[k].pc = "sent" /\ calls[k].pc # "sent" => calls[k].pc = "idle"
          /\ calls'[k].pc = "reading" /\ calls[k].pc # "reading" => calls[k].pc = "sent"
          /\ Stage(calls'[k].pc) < 2 => calls'[k].reads = <<>>
          /\ Len(calls'[k].reads) <= 1
          /\ Len(calls'[k].interceptions) <= 1
          /\ calls'[k].interceptions # calls[k].interceptions =>
                 calls[k].pc = "reading" /\ Ended(k)']_vars

\* A call ended with the interception error after one body read and one
\* call of the interceptor.
C16_Witness ==
    \E k \in 1..MaxCalls :
        /\ calls[k].pc = "interceptionError"
        /\ Len(calls[k].reads) = 1
        /\ Len(calls[k].interceptions) = 1

(***************************************************************************)
(* Claims about the setters (SetterSpec).                                  *)
(***************************************************************************)
\* A setter is called on client i with a required argument missing or
\* invalid.
InvalidSetterCall(i) ==
    \/ \E serviceUrl \in {JsUndefined, JsNull} : setServiceUrl(i, serviceUrl)
    \/ \E endpointFn \in NotFunctions : setEndpoint(i, endpointFn)
    \/ setAuthorization(i, JsUndefined)
    \/ setBasicAuth(i, JsUndefined)
    \/ setBearerAuth(i, JsUndefined)
    \/ \E pair \in MissingCredentials : setBasicAuthCredentials(i, pair[1], pair[2])
    \/ \E fn \in {JsUndefined, Str("pickData")} : setContentInterceptor(i, fn)

\* C14: a setter called with a required argument missing or invalid raises
\* an error and leaves every field of the client, and the dictionaries the
\* fields refer to, as they were.
C14_RejectedSetterKeepsState ==
    [][\A i \in Clients :
          (clients[i].exists /\ InvalidSetterCall(i)) =>
              /\ thrown' # NoError
              /\ clients'[i] = clients[i]
              /\ Snapshot(heap', clients'[i]) = Snapshot(heap, clients[i])
              /\ heap' = heap]_vars

\* After a valid setter call and then a rejected one, a call was issued
\* with the state the valid call left.
C14_Witness ==
    /\ thrown # NoError
    /\ setterCalls = 2
    /\ clients[1].serviceUrl = Str("https://b.example")
    /\ calls[1].pc = "sent"
    /\ calls[1].url.base = "https://b.example"

\* The value of key in dictionary d, undefined when d has no such key.
Lookup(d, key) ==
    IF key \in DictKeys(d)
    THEN d[CHOOSE j \in 1..Len(d) : d[j].k = key].v
    ELSE JsUndefined

\* Dictionary after is what replacing gives: the entries of arg.
Replaced(after, arg) == after = arg

\* Dictionary after is what merging arg into before gives: the keys of
\* both, a key of arg with the value of arg, any other key with its old
\* value.
Merged(after, before, arg) ==
    /\ DictKeys(after) = DictKeys(before) \cup DictKeys(arg)
    /\ Len(after) = Cardinality(DictKeys(after))
    /\ \A key \in DictKeys(after) :
           Lookup(after, key) =
               IF key \in DictKeys(arg) THEN Lookup(arg, key) ELSE Lookup(before, key)

\* The dictionary is what the call with arg and replace makes of it.
SetAsAsked(f, arg, replace) ==
    IF replace
    THEN Replaced(Deref(heap', clients'[1], f), ArgDict(heap, arg))
    ELSE Merged(Deref(heap', clients'[1], f), Deref(heap, clients[1], f),
                ArgDict(heap, arg))

\* C18: setParams, setQuery and setHeaders with replace leave exactly the
\* entries of the argument in the stored dictionary; without replace they
\* leave every previous key that the argument does not have with its old
\* value and every key of the argument with the argument's value.
C18_MergeOrReplace ==
    [][/\ \A arg \in ParamsArgs, replace \in BOOLEAN :
             setParams(1, arg, replace) => SetAsAsked("params", arg, replace)
       /\ \A arg \in QueryArgs, replace \in BOOLEAN :
             setQuery(1, arg, replace) => SetAsAsked("query", arg, replace)
       /\ \A arg \in HeadersArgs, replace \in BOOLEAN :
             setHeaders(1, arg, replace) => SetAsAsked("headers", arg, replace)]_vars

\* After setParams({a: 1}) and a replacing setParams({b: 2}, true) the params
\* hold b only.
C18_Witness ==
    /\ setterCalls = 2
    /\ Deref(heap, clients[1], "params") = <<Entry("b", Num(2))>>
    /\ heap["c1.params"] = <<Entry("b", Num(2))>>
    /\ clients[1].params = "c1.params"

(***************************************************************************)
(* More claims about the request (RequestSpec).                            *)
(***************************************************************************)
\* C17: the request of a GET or DELETE call has no body, whatever the
\* settings of the call hold and whichever variant the client is; the
\* request of a POST or PUT call has the JSON text of the body of the call,
\* and no body when the call has none.
C17_BodyOnlyForPostAndPut ==
    \A k \in 1..MaxCalls :
        Issued(k) =>
            IF calls[k].request.method \in {"GET", "DELETE"}
            THEN calls[k].request.body = JsUndefined
            ELSE calls[k].request.body = JsonStringify(calls[k].settings.body)

\* The headers of a call, none when the call has none.
CallHeaders(k) == DictOrDefault(calls[k].settings.headers, EmptyDict).lit

\* The value the claim has sent for key: that of the call when the call
\* names the key, else that of the client.
WinningHeader(k, key) ==
    IF key \in DictKeys(CallHeaders(k))
    THEN Lookup(CallHeaders(k), key)
    ELSE Lookup(calls[k].issued.headers, key)

\* C19: the headers of a request are the headers the client held when the
\* call was issued merged with the headers of the call: every key of either
\* is sent once, with the text of the call's value when the call names it
\* and of the client's value otherwise (a value that is null, undefined, ''
\* or false has no text to send and is left out), and nothing else is sent.
C19_HeadersMerged ==
    \A k \in 1..MaxCalls :
        Issued(k) =>
            /\ \A key \in DictKeys(calls[k].issued.headers) \cup DictKeys(CallHeaders(k)) :
                   ~SkippedValue(WinningHeader(k, key)) =>
                       \E j \in 1..Len(calls[k].request.headers) :
                           calls[k].request.headers[j] =
                               Entry(key, ToStr(WinningHeader(k, key)))
            /\ \A j \in 1..Len(calls[k].request.headers) :
                   LET sent == calls[k].request.headers[j]
                   IN  /\ sent.k \in DictKeys(calls[k].issued.headers)
                                       \cup DictKeys(CallHeaders(k))
                       /\ sent.v = ToStr(WinningHeader(k, sent.k))
            /\ Len(calls[k].request.headers) = Cardinality(DictKeys(calls[k].request.headers))

\* The entries of the query string under key, in their order.
EntriesOf(search, key) == SelectSeq(search, LAMBDA e : e.k = key)

C21_EndpointInvokedOnceWithMergedParams ==
    \A k \in 1..MaxCalls :
        /\ ~Issued(k) => calls[k].url.invoked = <<>>
        /\ Issued(k) =>
               /\ Len(calls[k].url.invoked) = 1
               /\ calls[k].url.invoked[1].fn = calls[k].issued.endpointFn.s
               /\ Merged(calls[k].url.invoked[1].params, calls[k].issued.params,
                         DictOrDefault(calls[k].settings.params, EmptyDict).lit)
               /\ calls[k].url.path = calls[k].url.invoked[1]
               /\ calls[k].url.base = calls[k].issued.serviceUrl.s

\* A call with params {a: 2} on a client whose params are {a: 1} invoked the
\* endpoint function with {a: 2}.
C21_Witness ==
    \E k \in 1..MaxCalls :
        /\ Issued(k)
        /\ calls[k].issued.params = <<Entry("a", Num(1))>>
        /\ calls[k].url.invoked = <<[fn |-> "usersEndpoint", params |-> <<Entry("a", Num(2))>>]>>
        /\ calls[k].url.base = "https://a.example"

(***************************************************************************)
(* Claims about the authorization setters (SetterSpec).                    *)
(***************************************************************************)
\* The step leaves the authorization header of client 1 with value v, and
\* every other header, the params and the query as they were.
OnlyAuthorizationSet(v) ==
    LET before == Deref(heap, clients[1], "headers")
        after == Deref(heap', clients'[1], "headers")
    IN  /\ thrown' = NoError
        /\ Lookup(after, "authorization") = v
        /\ DictKeys(after) = DictKeys(before) \cup {"authorization"}
        /\ Len(after) = Cardinality(DictKeys(after))
        /\ \A key \in DictKeys(before) \ {"authorization"} :
               Lookup(after, key) = Lookup(before, key)
        /\ Deref(heap', clients'[1], "params") = Deref(heap, clients[1], "params")
        /\ Deref(heap', clients'[1], "query") = Deref(heap, clients[1], "query")

\* The step raises an error and leaves the three dictionaries as they were.
NothingSet ==
    /\ thrown' # NoError
    /\ \A f \in {"params", "query", "headers"} :
           Deref(heap', clients'[1], f) = Deref(heap, clients[1], f)

\* C22: the authorization setters write the authorization header only:
\* setAuthorization(v) leaves v, setBasicAuth(t) leaves 'Basic ' + t,
\* setBearerAuth(t) leaves 'Bearer ' + t and setBasicAuthCredentials(u, p)
\* leaves 'Basic ' + base64(u + ':' + p); a rejected call leaves the header
\* of the last successful one; every other header, the params and the
\* query stay as they were.
C22_AuthorizationSettersWriteOneHeader ==
    [][/\ setAuthorization(1, Str("Token t")) => OnlyAuthorizationSet(Str("Token t"))
       /\ setBasicAuth(1, Str("dDp0")) => OnlyAuthorizationSet(Str("Basic dDp0"))
       /\ setBearerAuth(1, Str("t")) => OnlyAuthorizationSet(Str("Bearer t"))
       /\ setBasicAuthCredentials(1, UserName, Password) =>
              OnlyAuthorizationSet(Str("Basic dXNlcjpwdw=="))
       /\ \/ setAuthorization(1, JsUndefined)
          \/ setBasicAuth(1, JsUndefined)
          \/ setBearerAuth(1, JsUndefined)
          \/ \E pair \in MissingCredentials :
                 setBasicAuthCredentials(1, pair[1], pair[2])
          => NothingSet]_vars

\* After setHeaders and setBasicAuthCredentials('user', 'pw') the headers
\* hold the two headers set first and the Basic authorization.
C22_Witness ==
    /\ setterCalls = 2
    /\ thrown = NoError
    /\ Deref(heap, clients[1], "headers") =
           <<Entry("accept", Str("text/plain")), Entry("x-trace", Str("on")),
             Entry("authorization", Str("Basic dXNlcjpwdw=="))>>

(***************************************************************************)
(* Claims about the endpoint template tag (EndpointSpec).                  *)
(***************************************************************************)
\* The value is one the tag has to accept: a number, a boolean, a string
\* that is not empty, an object with a toString of its own.
IsValidValue(v) ==
    \/ v.t \in {"number", "boolean"}
    \/ v.t = "string" /\ v.s # ""
    \/ v.t = "object" /\ v.n = 1

\* The text a valid value of the specification stands for in a template.
Shown(v) ==
    CASE v = Num(0) -> "0"
      [] v = Num(1) -> "1"
      [] v = Bool(FALSE) -> "false"
      [] v = Bool(TRUE) -> "true"
      [] OTHER -> v.s

RECURSIVE Interleaved(_, _)
\* The chunks with the texts of the values between them, in order.
Interleaved(strings, values) ==
    IF values = <<>> THEN strings[1]
    ELSE strings[1] \o Shown(values[1]) \o Interleaved(Tail(strings), Tail(values))

\* C23: a template whose values are all valid (numbers, 0 too; booleans,
\* false too; strings that are not empty; objects with a toString of their
\* own) returns its chunks with the string conversion of each value
\* between them, in order.
C23_ValidTemplateIsInterleaved ==
    (template.pc \notin {"none", "called"}
        /\ \A j \in 1..Len(template.values) : IsValidValue(template.values[j]))
        => /\ template.pc = "returned"
           /\ thrown = NoError
           /\ template.result = Interleaved(template.strings, template.values)

\* The template /api/groups/${1}/users/${0} returned /api/groups/1/users/0.
C23_Witness ==
    /\ template.pc = "returned"
    /\ template.strings = <<"/api/groups/", "/users/", "">>
    /\ template.values = <<Num(1), Num(0)>>
    /\ template.result = "/api/groups/1/users/0"

\* The parameter type that names what is wrong with an invalid value.
TypeOfInvalid(v) ==
    CASE v = JsUndefined -> "UNDEFINED"
      [] v = JsNull -> "NULL"
      [] v = Str("") -> "EMPTY_STRING"
      [] OTHER -> "MISSING_TO_STRING"

\* C24: a template with a value that is undefined, null, the empty string
\* or an object with the default toString raises
\* InvalidHttpEndpointParameterError and returns no string; the
\* parameterType of the error is that of the first such value from the
\* left.
C24_FirstInvalidValueIsReported ==
    LET invalid == {j \in 1..Len(template.values) : ~IsValidValue(template.values[j])}
    IN  (template.pc \notin {"none", "called"} /\ invalid # {})
            => LET first == CHOOSE j \in invalid : \A m \in invalid : j <= m
               IN  /\ template.pc = "thrown"
                   /\ template.result = ""
                   /\ thrown # NoError
                   /\ template.error.name = "InvalidHttpEndpointParameterError"
                   /\ template.error.parameterType = TypeOfInvalid(template.values[first])

\* The template /api/groups/${''}/users/${null} raised the error for the
\* empty string.
C24_Witness ==
    /\ template.pc = "thrown"
    /\ template.values = <<Str(""), JsNull>>
    /\ template.error.parameterType = "EMPTY_STRING"

(***************************************************************************)
(* Claims about the ownership of the dictionaries (ConfigSpec).            *)
(***************************************************************************)
\* C25: every client owns its params, query and headers alone: no field of
\* a client refers to an object the caller holds, and no two fields, of
\* one client or of two, refer to the same object.
C25_ExclusiveOwnership ==
    \A i \in Clients, f \in Fields :
        clients[i].exists =>
            /\ RefOf(clients[i], f) \notin CallerObjs
            /\ \A j \in Clients, g \in Fields :
                   (clients[j].exists /\ <<j, g>> # <<i, f>>)
                       => RefOf(clients[j], g) # RefOf(clients[i], f)

(***************************************************************************)
(* More claims about the classification (MimeSpec).                        *)
(***************************************************************************)
\* The text ends in the word.
EndsIn(str, word) ==
    Len(str) >= Len(word) /\ SubSeq(str, Len(str) - Len(word) + 1, Len(str)) = word

\* The text begins with the word.
BeginsWith(str, word) == Len(str) >= Len(word) /\ SubSeq(str, 1, Len(word)) = word

\* C26: a content type application/...xml, in any case of its letters, is
\* classified XML; a content type text/...xml or image/...xml is
\* classified TEXT; and a content type is classified TEXT only when it
\* begins with text/ or is a text/...xml or image/...xml type, so that the
\* application alternative of the text rule decides nothing.
C26_XmlPrecedence ==
    \A k \in 1..MaxCalls :
        calls[k].pc \notin {"idle", "sent"} =>
            LET l == LowerCase(DeclaredType(k))
                textOrImageXml ==
                    /\ BeginsWith(l, TextSlash) \/ BeginsWith(l, ImageSlash)
                    /\ EndsIn(l, XmlWord)
            IN  /\ (BeginsWith(l, ApplicationSlash) /\ EndsIn(l, XmlWord))
                       => calls[k].parse.type = "XML"
                /\ textOrImageXml => calls[k].parse.type = "TEXT"
                /\ calls[k].parse.type = "TEXT"
                       => BeginsWith(DeclaredType(k), TextSlash) \/ textOrImageXml

\* A response declared image/svg+xml, or one declared TEXT/xml, resolved
\* with type TEXT.
C26_Witness ==
    \E k \in 1..MaxCalls :
        /\ calls[k].pc = "resolved"
        /\ calls[k].response.contentType \in
               {Header(ImageSlash \o <<"s", "v", "g", "+", "x", "m", "l">>),
                Header(<<"T", "E", "X", "T", "/">> \o XmlWord)}
        /\ calls[k].result.type = "TEXT"
        /\ calls[k].reads = <<"text">>

(***************************************************************************)
(* Claims about termination (LiveSpec).                                    *)
(***************************************************************************)
\* C27: when the transport and the body read of every call settle, a call
\* that was started ends, whatever other calls and setters run on the
\* client in between, and a call that has ended stays as it ended.
C27_EveryCallEnds ==
    /\ \A k \in 1..MaxCalls : Issued(k) ~> Ended(k)
    /\ [][\A k \in 1..MaxCalls : Ended(k) => calls'[k] = calls[k]]_vars

\* One call has ended with a result while another one, started before the
\* endpoint was set anew, is still waiting for its transport.
C27_Witness ==
    \E k \in 1..MaxCalls, m \in 1..MaxCalls :
        /\ calls[k].pc = "resolved"
        /\ calls[m].pc = "sent"
        /\ calls[m].issued.endpointFn = Fn("usersEndpoint")
        /\ clients[1].endpointFn = Fn("groupsEndpoint")

(***************************************************************************)
(* Claims about what a call leaves of the client (InterceptSpec).          *)
(***************************************************************************)
\* C28: no step of a call, from get, post, put or del with settings that
\* override params, query and headers and bring a signal and a body, to
\* its end in a result or in an error, changes a field of the client, a
\* dictionary a field refers to or an object of the caller.
C28_CallsLeaveClientAlone ==
    [][\A k \in 1..MaxCalls :
          calls'[k] # calls[k] =>
              /\ clients' = clients
              /\ \A i \in Clients :
                     clients[i].exists =>
                         Snapshot(heap', clients'[i]) = Snapshot(heap, clients[i])
              /\ heap' = heap]_vars

\* A call with overriding settings has ended, and the client holds what it
\* held when the call was issued: none of the overrides.
C28_Witness ==
    \E k \in 1..MaxCalls :
        /\ Ended(k)
        /\ calls[k].settings = OverridingSettings
        /\ calls[k].url.path.params = <<Entry("a", Num(2))>>
        /\ Snapshot(heap, clients[1]) = calls[k].issued
        /\ Lookup(Deref(heap, clients[1], "headers"), "x-trace") = JsUndefined
        /\ Deref(heap, clients[1], "params") = EmptyDict

(***************************************************************************)
(* Claims about the endpoint a result names (Spec).                        *)
(***************************************************************************)
\* C29: the endpointFn of a result, and of the result a response error or
\* an interception error carries, is the endpoint function that was
\* invoked to build the URL of the call, also when setEndpoint is called
\* while the call waits for the transport or for the body.
C29_ResultNamesInvokedEndpoint ==
    \A k \in 1..MaxCalls :
        calls[k].pc \in {"resolved", "responseError", "interceptionError"} =>
            /\ Len(calls[k].url.invoked) = 1
            /\ Outcome(k).endpointFn = Fn(calls[k].url.invoked[1].fn)

(***************************************************************************)
(* Claims about content-type parameters (MimeSpec).                        *)
(***************************************************************************)
\* The media type of a content type: what stands before its first
\* semicolon.
MediaType(str) ==
    IF \E j \in 1..Len(str) : str[j] = ";"
    THEN SubSeq(str, 1, (CHOOSE j \in 1..Len(str) :
                            str[j] = ";" /\ \A m \in 1..(j - 1) : str[m] # ";") - 1)
    ELSE str

\* C30: the type of a response depends on the media type of its content
\* type only: a content type with parameters gets the type of the media
\* type without them.
C30_ParametersDoNotMatter ==
    \A k \in 1..MaxCalls :
        calls[k].pc \notin {"idle", "sent"} =>
            calls[k].parse.type = parseBranch(MediaType(DeclaredType(k))).type

====
